---- MODULE Spec2Model ----
(***************************************************************************)
(* A model of nota: the Node tree (nota/utils/tree.py), the fragment       *)
(* scanner (nota/utils/parsing.py), the block structure pass               *)
(* (nota/format/nd.py), the line-oriented block parser                     *)
(* (research/ndparser.py) and the tree query engine                        *)
(* (research/tree-patterns.py).                                            *)
(*                                                                         *)
(* Each component has its own specification (SpecTree, SpecScan, ...).     *)
(* The variables of the components a specification does not exercise are  *)
(* held at their idle values.                                              *)
(***************************************************************************)
EXTENDS Integers, Sequences, FiniteSets, TLC

VARIABLES
    parent,     \* Node.parent of every node (None when the node has none)
    children,   \* Node._children of every node
    err,        \* an assertion or exception ended the program
    op,         \* the name of the last Node operation called
    text,       \* the source text given to the scanner
    patterns,   \* the name -> Pattern mapping, in iteration order
    lookahead,  \* the scanner's lookahead
    fragment,   \* the scanner's current window (NoFragment when the scan is over)
    out,        \* the (name, match) pairs the scanner has yielded so far
    windows,    \* the number of iterations of the scanner's loop so far
    input,      \* the lines given to parseBlocks
    grammar,    \* the blocks mapping of parseBlocks, in iteration order
    pos,        \* the number of input lines parseBlocks has consumed
    cur,        \* parseBlocks' current block: <<>> for None, else <<block>>
    emitted,    \* the blocks parseBlocks has yielded so far
    done,       \* parseBlocks has returned
    nodeName,   \* Node.name of every node
    query,      \* the Query: its name pattern
    qnode,      \* the node the query is started at
    it,         \* matchIter's locals: position on the axis, group, previous
    mg,         \* matchGroups' locals: group, res
    groups,     \* the lists matchGroups has yielded so far
    qdone,      \* matchGroups has returned
    offset,     \* structure's offset: the end of the last delimiter
    block,      \* structure's current block, as its position in blocks (0 for None)
    blocks,     \* structure's list of blocks
    consumed,   \* the number of scanner pairs structure's loop has taken
    doc,        \* the nodes tree has built; the root is node 1
    ndDone,     \* nd.parse has returned
    iline,      \* the line given to parseInlines
    inlines,    \* the inlines mapping of parseInlines, in iteration order
    frames,     \* the active calls of parseInlines, the innermost last
    iout,       \* what the outermost call of parseInlines has yielded
    idone,      \* the outermost call of parseInlines has returned
    rtree,      \* the Node objects of the transformed document: parent, children, raised
    rname,      \* the name of each Node object
    rused,      \* the number of Node objects created so far
    rctxs,      \* the MatchContext objects, each with its parent (0 for None) and entries
    rop,        \* the last call made on the rules: its name and arguments
    rcount,     \* the number of calls made on the rules
    taken,      \* the number of blocks the loop of parseLines has taken from parseBlocks
    lstack,     \* the stack of parseLines: (ind, node) pairs, the innermost last
    lnode,      \* the node of parseLines (0 for None)
    ltree,      \* the Node objects parseLines has created: parent, children, raised
    lname,      \* the name of each Node object of parseLines
    lused,      \* the number of Node objects parseLines has created
    ldone,      \* parseLines has returned or raised
    store,      \* the note files of the LocalStore: for each note path, <<>> or <<contents>>
    wop,        \* the last call of LocalStore.write: its arguments, what was stored, its outcome
    cattrs,     \* Node.attributes of each Node object given to copy and of each copy
    cop,        \* the last call of Node.copy: the node copied, the copy, the objects before the call
    axis,       \* the name of the Axis member given to the Query (None for no axis)
    ayield,     \* the (group, node) couples matchIter has yielded so far
    adone,      \* matchIter has returned
    slog,       \* the steps of the last Selection.apply in the order they were run
    srule,      \* the rule Selection.apply was last called on (0 for none)
    sparent,    \* Selection.parent of each Selection object (0 for None)
    sselections, \* Selection.selections of each Selection object
    sstack,     \* Selection.Stack, the innermost last
    sids,       \* Selection.IDS, the number of Selection objects constructed
    sraised,    \* the last call on a Selection raised AssertionError
    wpc,        \* where each concurrent writer is in LocalStore.write: check, write, done or raised
    wnew,       \* the contents each concurrent writer writes
    worig,      \* the text both concurrent writers read before they write
    iblock,     \* the MatchedBlock given to indentation
    iind        \* what parseLines computed as the indentation of the block (-1 before the call)

treeVars == <<parent, children, err, op>>
scanVars == <<text, patterns, lookahead, fragment, out, windows>>
blockVars == <<input, grammar, pos, cur, emitted, done>>
queryVars == <<nodeName, query, qnode, it, mg, groups, qdone>>
ndVars == <<offset, block, blocks, consumed, doc, ndDone>>
inlineVars == <<iline, inlines, frames, iout, idone>>
ruleVars == <<rtree, rname, rused, rctxs, rop, rcount>>
lineVars == <<taken, lstack, lnode, ltree, lname, lused, ldone>>
storeVars == <<store, wop>>
copyVars == <<cattrs, cop>>
axisVars == <<axis, ayield, adone>>
orderVars == <<slog, srule>>
selVars == <<sparent, sselections, sstack, sids, sraised>>
writerVars == <<wpc, wnew, worig>>
indentVars == <<iblock, iind>>

vars == <<parent, children, err, op, text, patterns, lookahead, fragment, out, windows,
          input, grammar, pos, cur, emitted, done,
          nodeName, query, qnode, it, mg, groups, qdone,
          offset, block, blocks, consumed, doc, ndDone,
          iline, inlines, frames, iout, idone,
          rtree, rname, rused, rctxs, rop, rcount,
          taken, lstack, lnode, ltree, lname, lused, ldone,
          store, wop,
          cattrs, cop,
          axis, ayield, adone,
          slog, srule,
          sparent, sselections, sstack, sids, sraised,
          wpc, wnew, worig,
          iblock, iind>>

----------------------------------------------------------------------------
(* Bounds *)

NumNodes == 3
MaxArgs == 2
MaxIndex == 2
MaxText == 4
MaxPatterns == 2
MaxLookahead == 3
MaxWindows == 8
MaxLines == 3
MaxEntries == 2
QueryNodes == 5
MaxNdText == 6
MaxLine == 5
MaxInlines == 2
RuleNodes == 7
InitRuleNodes == 4
MaxApply == 2
MaxBound == 2
MaxContexts == 3
MaxStored == 1       \* characters of a note's contents
MaxSelections == 3   \* Selection objects constructed
MaxStack == 2        \* with blocks entered and not left
MaxBlockLines == 3   \* lines of a block given to indentation

----------------------------------------------------------------------------
(* Sequences helpers: Python list primitives *)

None == 0

\* the Optional[Fragment] that is None
NoFragment == [start |-> 0 - 1, end |-> 0 - 1]

\* list.index(x): the first position of x (1-based), 0 when absent (ValueError)
IndexOf(seq, x) ==
    IF \E i \in 1..Len(seq) : seq[i] = x
    THEN CHOOSE i \in 1..Len(seq) : seq[i] = x /\ \A j \in 1..(i-1) : seq[j] # x
    ELSE 0

\* list.remove(x): drops the first occurrence of x
RemoveFirst(seq, x) ==
    LET i == IndexOf(seq, x)
    IN  SubSeq(seq, 1, i - 1) \o SubSeq(seq, i + 1, Len(seq))

\* list.insert(i0, x) with a 0-based index 0 <= i0 <= len
InsertAt(seq, i0, x) ==
    SubSeq(seq, 1, i0) \o <<x>> \o SubSeq(seq, i0 + 1, Len(seq))

Count(seq, x) == Cardinality({i \in 1..Len(seq) : seq[i] = x})

\* whether s occurs in line at the 1-based position i
StartsWith(line, i, s) ==
    /\ i + Len(s) - 1 <= Len(line)
    /\ SubSeq(line, i, i + Len(s) - 1) = s

Min2(a, b) == IF a < b THEN a ELSE b
Max2(a, b) == IF a > b THEN a ELSE b

SeqsUpTo(S, n) == UNION {[1..k -> S] : k \in 0..n}

----------------------------------------------------------------------------
(* The idle values of each component's variables *)

Nodes == 1..NumNodes

\* Node.__init__: no parent, no children
IdleTree ==
    /\ parent = [n \in Nodes |-> None]
    /\ children = [n \in Nodes |-> <<>>]
    /\ err = FALSE
    /\ op = "init"

IdleScan ==
    /\ text = <<>>
    /\ patterns = <<>>
    /\ lookahead = 0
    /\ fragment = NoFragment
    /\ out = <<>>
    /\ windows = 0

IdleBlocks ==
    /\ input = <<>>
    /\ grammar = <<>>
    /\ pos = 0
    /\ cur = <<>>
    /\ emitted = <<>>
    /\ done = FALSE

IdleQuery ==
    /\ nodeName = <<>>
    /\ query = ""
    /\ qnode = None
    /\ it = [pos |-> 0, group |-> 0, previous |-> None]
    /\ mg = [group |-> 0, res |-> <<>>]
    /\ groups = <<>>
    /\ qdone = FALSE

\* nothing scanned, no block, no node
IdleNd ==
    /\ offset = 0
    /\ block = 0
    /\ blocks = <<>>
    /\ consumed = 0
    /\ doc = [parent |-> <<>>, children |-> <<>>, err |-> FALSE,
              name |-> <<>>, data |-> <<>>]
    /\ ndDone = FALSE

\* parseInlines is not called
IdleInline ==
    /\ iline = <<>>
    /\ inlines = <<>>
    /\ frames = <<>>
    /\ iout = <<>>
    /\ idone = FALSE

\* no rule, transform or context exists
IdleRules ==
    /\ rtree = [parent |-> <<>>, children |-> <<>>, err |-> FALSE]
    /\ rname = <<>>
    /\ rused = 0
    /\ rctxs = <<>>
    /\ rop = [name |-> "init", a |-> 0, b |-> 0, before |-> "", beforeA |-> 0]
    /\ rcount = 0

\* parseLines is not called
IdleLines ==
    /\ taken = 0
    /\ lstack = <<>>
    /\ lnode = 0
    /\ ltree = [parent |-> <<>>, children |-> <<>>, err |-> FALSE]
    /\ lname = <<>>
    /\ lused = 0
    /\ ldone = FALSE

\* no LocalStore is used
IdleStore ==
    /\ store = <<>>
    /\ wop = [name |-> "init", path |-> "", contents |-> <<>>, original |-> <<>>,
              before |-> <<>>, outcome |-> ""]

\* Node.copy is not called
IdleCopy ==
    /\ cattrs = <<>>
    /\ cop = [name |-> "init", self |-> 0, node |-> 0, used |-> 0,
              parent |-> <<>>, children |-> <<>>, names |-> <<>>, attrs |-> <<>>]

\* matchIter is not called on its own
IdleAxis ==
    /\ axis = "None"
    /\ ayield = <<>>
    /\ adone = FALSE

\* Selection.apply is not called on its own
IdleOrder ==
    /\ slog = <<>>
    /\ srule = 0

\* no Selection is constructed
IdleSelections ==
    /\ sparent = <<>>
    /\ sselections = <<>>
    /\ sstack = <<>>
    /\ sids = 0
    /\ sraised = FALSE

\* no concurrent call of LocalStore.write is made
IdleWriters ==
    /\ wpc = <<>>
    /\ wnew = <<>>
    /\ worig = <<>>

\* indentation is not called on its own
IdleIndent ==
    /\ iblock = <<>>
    /\ iind = 0 - 1

----------------------------------------------------------------------------
(* Node: nota/utils/tree.py *)

Indexes == (0 - MaxIndex)..MaxIndex
NodeLists == SeqsUpTo(Nodes, MaxArgs)

\* The tree as one value: the operations below are functions from tree to
\* tree, so that an operation that calls another is their composition.
\* A failed assertion sets err and every later step of the call is skipped.
Tree == [parent |-> parent, children |-> children, err |-> err]

Fail(t) == [t EXCEPT !.err = TRUE]

\* Node.add without its assertion on node.parent
NodeAddUnchecked(t, self, node) ==
    IF t.err THEN t
    ELSE [t EXCEPT !.parent[node] = self,
                   !.children[self] = Append(@, node)]

NodeAdd(t, self, node) ==
    IF t.err THEN t
    ELSE IF t.parent[node] # None THEN Fail(t)
    ELSE [t EXCEPT !.parent[node] = self,
                   !.children[self] = Append(@, node)]

NodeAppend(t, self, node) == NodeAdd(t, self, node)

\* Node.remove that forgets to clear the removed node's parent
NodeRemoveKeepParent(t, self, node) ==
    IF t.err THEN t
    ELSE IF t.parent[node] # self THEN Fail(t)
    ELSE IF IndexOf(t.children[self], node) = 0 THEN Fail([t EXCEPT !.parent[node] = None])
    ELSE [t EXCEPT !.parent[node] = self,
                   !.children[self] = RemoveFirst(@, node)]

NodeRemove(t, self, node) ==
    IF t.err THEN t
    ELSE IF t.parent[node] # self THEN Fail(t)
    ELSE IF IndexOf(t.children[self], node) = 0 THEN Fail([t EXCEPT !.parent[node] = None])
    ELSE [t EXCEPT !.parent[node] = None,
                   !.children[self] = RemoveFirst(@, node)]

NodeDetach(t, self) ==
    IF t.err THEN t
    ELSE IF t.parent[self] # None THEN NodeRemove(t, t.parent[self], self)
    ELSE t

NodeSet(t, self, index, node) ==
    IF t.err THEN t
    ELSE IF t.parent[node] # None THEN Fail(t)
    ELSE LET n == Len(t.children[self])
         IN  IF n = 0 THEN NodeAdd(t, self, node)
             ELSE LET i == Min2(Max2(0, IF index < 0 THEN n + index ELSE index), n - 1)
                      previous == t.children[self][i + 1]
                      cleared == [t EXCEPT !.children[self][i + 1] = node,
                                           !.parent[previous] = None]
                  IN  [cleared EXCEPT !.parent[node] = self]

NodeInsert(t, self, index, node) ==
    IF t.err THEN t
    ELSE LET n == Len(t.children[self])
             i == IF index >= 0 THEN index ELSE n + index
         IN  IF ~(i >= 0 /\ i <= n) THEN Fail(t)
             ELSE IF t.parent[node] # None THEN Fail(t)
             ELSE [t EXCEPT !.parent[node] = self,
                            !.children[self] = InsertAt(@, i, node)]

RECURSIVE AppendAll(_, _, _)
AppendAll(t, self, nodes) ==
    IF nodes = <<>> THEN t
    ELSE AppendAll(NodeAppend(t, self, Head(nodes)), self, Tail(nodes))

NodeSetChildren(t, self, nodes) ==
    IF t.err THEN t
    ELSE LET old == t.children[self]
             cleared == [t EXCEPT
                 !.parent = [x \in DOMAIN t.parent |->
                     IF \E i \in 1..Len(old) : old[i] = x THEN None ELSE @[x]],
                 !.children[self] = <<>>]
         IN  AppendAll(IF old # <<>> THEN cleared ELSE t, self, nodes)

\* for node in nodes: self.add(node.detach())
RECURSIVE AddDetached(_, _, _)
AddDetached(t, self, nodes) ==
    IF nodes = <<>> THEN t
    ELSE AddDetached(NodeAdd(NodeDetach(t, Head(nodes)), self, Head(nodes)),
                     self, Tail(nodes))

NodeExtend(t, self, nodes) == AddDetached(t, self, nodes)

\* The attribute merge of Node.merge changes no parent and no children list.
NodeMerge(t, self, node) ==
    IF t.err THEN t ELSE AddDetached(t, self, t.children[node])

NodeAbsorb(t, self, node) == NodeMerge(NodeDetach(t, node), self, node)

NodeWrap(t, self, node) ==
    IF t.err THEN t
    ELSE LET p == t.parent[self]
         IN  IF p # None
             THEN LET i == IndexOf(t.children[p], self)
                  IN  IF i = 0 THEN Fail(t)
                      ELSE NodeAppend(NodeSet(t, p, i - 1, node), node, self)
             ELSE NodeAppend(t, node, self)

\* for i in range(len(nodes) - 1, -1, -1): if self.parent: self.parent.insert(index, nodes[i])
RECURSIVE InsertReversed(_, _, _, _)
InsertReversed(t, self, index, nodes) ==
    IF nodes = <<>> \/ t.err THEN t
    ELSE LET last == nodes[Len(nodes)]
             rest == SubSeq(nodes, 1, Len(nodes) - 1)
             step == IF t.parent[self] # None
                     THEN NodeInsert(t, t.parent[self], index, last)
                     ELSE t
         IN  InsertReversed(step, self, index, rest)

NodeReplaceWith(t, self, nodes) ==
    IF t.err THEN t
    ELSE IF t.parent[self] = None THEN Fail(t)
    ELSE LET i == IndexOf(t.children[t.parent[self]], self)
         IN  IF i = 0 THEN Fail(t)
             ELSE NodeDetach(InsertReversed(t, self, i - 1, nodes), self)

----------------------------------------------------------------------------
(* The Node operations as actions: any caller, any arguments *)

Call(name, t) ==
    /\ ~err
    /\ parent' = t.parent
    /\ children' = t.children
    /\ err' = t.err
    /\ op' = name
    /\ UNCHANGED <<scanVars, blockVars, queryVars, ndVars, inlineVars, ruleVars, lineVars, storeVars, copyVars, axisVars, orderVars, selVars, writerVars, indentVars>>

TreeAdd == \E s \in Nodes, n \in Nodes : Call("add", NodeAdd(Tree, s, n))

TreeInsert ==
    \E s \in Nodes, n \in Nodes, i \in Indexes : Call("insert", NodeInsert(Tree, s, i, n))

TreeSet ==
    \E s \in Nodes, n \in Nodes, i \in Indexes : Call("set", NodeSet(Tree, s, i, n))

TreeSetChildren ==
    \E s \in Nodes, ns \in NodeLists : Call("setChildren", NodeSetChildren(Tree, s, ns))

TreeRemove == \E s \in Nodes, n \in Nodes : Call("remove", NodeRemove(Tree, s, n))

TreeDetach == \E s \in Nodes : Call("detach", NodeDetach(Tree, s))

TreeExtend ==
    \E s \in Nodes, ns \in NodeLists : Call("extend", NodeExtend(Tree, s, ns))

TreeMerge == \E s \in Nodes, n \in Nodes : Call("merge", NodeMerge(Tree, s, n))

TreeAbsorb == \E s \in Nodes, n \in Nodes : Call("absorb", NodeAbsorb(Tree, s, n))

TreeWrap == \E s \in Nodes, n \in Nodes : Call("wrap", NodeWrap(Tree, s, n))

TreeReplaceWith ==
    \E s \in Nodes, ns \in NodeLists : Call("replaceWith", NodeReplaceWith(Tree, s, ns))

InitTree == IdleTree /\ IdleScan /\ IdleBlocks /\ IdleQuery /\ IdleNd /\ IdleInline /\ IdleRules /\ IdleLines /\ IdleStore /\ IdleCopy /\ IdleAxis /\ IdleOrder /\ IdleSelections /\ IdleWriters /\ IdleIndent

NextTree ==
    \/ TreeAdd
    \/ TreeInsert
    \/ TreeSet
    \/ TreeSetChildren
    \/ TreeRemove
    \/ TreeDetach
    \/ TreeExtend
    \/ TreeMerge
    \/ TreeAbsorb
    \/ TreeWrap
    \/ TreeReplaceWith

SpecTree == InitTree /\ [][NextTree]_vars

----------------------------------------------------------------------------
(* Node invariants *)

\* the nodes reached from n by following parent at most k times
RECURSIVE AncestorsWithin(_, _)
AncestorsWithin(n, k) ==
    IF k = 0 \/ parent[n] = None THEN {}
    ELSE {parent[n]} \cup AncestorsWithin(parent[n], k - 1)

Ancestors(n) == AncestorsWithin(n, NumNodes)

ParentChildrenAgree ==
    /\ \A n \in Nodes : parent[n] # None => Count(children[parent[n]], n) = 1
    /\ \A p \in Nodes : \A i \in 1..Len(children[p]) : parent[children[p][i]] = p
    /\ \A p \in Nodes, q \in Nodes : \A i \in 1..Len(children[p]) :
           \A j \in 1..Len(children[q]) : children[p][i] = children[q][j] => p = q

Acyclic == \A n \in Nodes : n \notin Ancestors(n)

\* C1: after any sequence of Node operations that pass their precondition
\* checks, parent and children agree: a node with parent p occurs exactly
\* once in p's children, every listed child has that parent, and no node is
\* listed under two parents.
C1_ParentChildrenAgree == ~err => ParentChildrenAgree

\* a node attached by wrap into a tree of depth two, all checks passed
C1_Witness ==
    /\ ~err
    /\ op = "wrap"
    /\ \E a \in Nodes, b \in Nodes :
           /\ parent[a] = b
           /\ parent[b] # None
           /\ parent[b] # a
           /\ parent[b] # b

\* C21: add, insert and set called with a node that already has a parent,
\* and remove called with a node whose parent is not the receiver, fail at an
\* assertion and leave every parent and every children list as they were.
C21_RejectedCallsChangeNothing ==
    [][\A s \in Nodes, n \in Nodes :
          /\ (parent[n] # None /\ Call("add", NodeAdd(Tree, s, n)))
                => (err' /\ UNCHANGED <<parent, children>>)
          /\ \A i \in Indexes :
                (parent[n] # None /\ Call("insert", NodeInsert(Tree, s, i, n)))
                  => (err' /\ UNCHANGED <<parent, children>>)
          /\ \A i \in Indexes :
                (parent[n] # None /\ Call("set", NodeSet(Tree, s, i, n)))
                  => (err' /\ UNCHANGED <<parent, children>>)
          /\ (parent[n] # s /\ Call("remove", NodeRemove(Tree, s, n)))
                => (err' /\ UNCHANGED <<parent, children>>)]_vars

\* add has failed: its only assertion on the tree is that on node.parent, so
\* it was called with a node that had a parent, in a tree that has children
C21_Witness ==
    /\ err
    /\ op = "add"
    /\ \E n \in Nodes : parent[n] # None /\ children[parent[n]] # <<>>

----------------------------------------------------------------------------
(* The fragment scanner: nota/utils/parsing.py *)

Alphabet == {"a", "b"}
Texts == SeqsUpTo(Alphabet, MaxText)

\* source[a:b] of Python, a and b not negative, offsets 0-based
Slice(src, a, b) ==
    LET lo == Min2(a, Len(src))
        hi == Min2(b, Len(src))
    IN  IF hi <= lo THEN <<>> ELSE SubSeq(src, lo + 1, hi)

\* the number of consecutive c in w from the 1-based position i on
RECURSIVE RunLength(_, _, _)
RunLength(w, i, c) ==
    IF i > Len(w) \/ w[i] # c THEN 0 ELSE 1 + RunLength(w, i + 1, c)

\* no match; cs and ce are the span of the group named "content", -1 when
\* the expression has no such group
NoMatch == [start |-> 0 - 1, end |-> 0 - 1, cs |-> 0 - 1, ce |-> 0 - 1]

\* the characters \s matches, among those of the modelled texts
Whitespace == {" ", "\n"}

\* the number of consecutive whitespace characters in w from position i on
RECURSIVE SpaceRun(_, _)
SpaceRun(w, i) ==
    IF i > Len(w) \/ w[i] \notin Whitespace THEN 0 ELSE 1 + SpaceRun(w, i + 1)

\* the 1-based position of the first newline of w at or after i, 0 if none
LineEnd(w, i) ==
    LET nls == {j \in i..Len(w) : w[j] = "\n"}
    IN  IF nls = {} THEN 0 ELSE CHOOSE j \in nls : \A k \in nls : j <= k

\* a match from offset a to offset b, of an expression without content group
Span(a, b) == [start |-> a, end |-> b, cs |-> 0 - 1, ce |-> 0 - 1]

\* the match of the heading whose content starts at the 1-based position c
HeadingContent(w, i, c) ==
    [start |-> i, end |-> LineEnd(w, c), cs |-> c - 1, ce |-> LineEnd(w, c) - 1]

\* \s+(?P<content>.+)\n from the 1-based position q, after the run of #: the
\* longest whitespace run that leaves a non-empty rest of line with its newline
HeadingAfter(w, i, q) ==
    LET ks == {k \in 1..SpaceRun(w, q) :
                  /\ q + k <= Len(w)
                  /\ w[q + k] # "\n"
                  /\ LineEnd(w, q + k) # 0}
    IN  IF ks = {} THEN NoMatch
        ELSE HeadingContent(w, i, q + (CHOOSE k \in ks : \A j \in ks : j <= k))

\* (?P<depth>#+)\s+(?P<content>.+)\n tried at the 0-based offset i of w
HeadingAt(w, i) ==
    IF i + 1 > Len(w) \/ w[i + 1] # "#" THEN NoMatch
    ELSE HeadingAfter(w, i, i + 1 + RunLength(w, i + 1, "#"))

\* (?P<underline>(===+|\-\-\-+))\n after the newline at the 1-based position
\* nl, d being the length of the run of = or of - that follows it
Underline(w, i, nl, d) ==
    IF d >= 3 /\ nl + 1 + d <= Len(w) /\ w[nl + 1 + d] = "\n"
    THEN [start |-> i, end |-> nl + 1 + d, cs |-> i, ce |-> nl - 1]
    ELSE NoMatch

\* the underline looked for after the newline at nl
UnderlineAfter(w, i, nl) ==
    Underline(w, i, nl, Max2(RunLength(w, nl + 1, "="), RunLength(w, nl + 1, "-")))

\* (?P<content>.+)\n(?P<underline>(===+|\-\-\-+))\n tried at the offset i
UnderlinedAt(w, i) ==
    IF i + 1 > Len(w) \/ w[i + 1] = "\n" \/ LineEnd(w, i + 1) = 0 THEN NoMatch
    ELSE UnderlineAfter(w, i, LineEnd(w, i + 1))

\* the expression of the given kind tried at the offset i of w
MatchAt(kind, w, i) ==
    IF kind = "heading" THEN HeadingAt(w, i) ELSE UnderlinedAt(w, i)

\* ^(?P<depth>\s*)\-\s+ after the ws whitespace characters that start w
BulletAfter(w, ws) ==
    IF ws + 1 <= Len(w) /\ w[ws + 1] = "-" /\ SpaceRun(w, ws + 2) >= 1
    THEN Span(0, ws + 1 + SpaceRun(w, ws + 2))
    ELSE NoMatch

\* the characters [\w\d\-_] matches, among those of the modelled texts
WordChars == {"a", "x", "p", "_", "-"}

\* the number of consecutive word characters in w from position i on
RECURSIVE WordRun(_, _)
WordRun(w, i) ==
    IF i > Len(w) \/ w[i] \notin WordChars THEN 0 ELSE 1 + WordRun(w, i + 1)

\* the match of a tag from offset i to offset e, its group "name" after the #
TagSpan(i, e) == [start |-> i, end |-> e, cs |-> i + 1, ce |-> e]

\* #(?P<name>[\w\d\-_]+) tried at the 0-based offset i of w
TagAt(w, i) ==
    IF i + 2 <= Len(w) /\ w[i + 1] = "#" /\ w[i + 2] \in WordChars
    THEN TagSpan(i, i + 1 + WordRun(w, i + 2))
    ELSE NoMatch

\* the leftmost of the matches ms, which start at distinct offsets
Leftmost(ms) ==
    IF ms = {} THEN NoMatch
    ELSE CHOOSE m \in ms : \A n \in ms : m.start <= n.start

\* re.Pattern.search over the window text w: the leftmost match, as 0-based
\* offsets into w.  The regular expressions modelled are
\*   kind "lit":  a literal string s      (re.escape(s))
\*   kind "star": c*  (matches at offset 0, possibly the empty string)
\*   kind "plus": c+  (the leftmost run of c)
\*   kind "anchored": ^s without re.MULTILINE (s at offset 0 only)
\*   kind "heading": (?P<depth>#+)\s+(?P<content>.+)\n
\*   kind "underlined": (?P<content>.+)\n(?P<underline>(===+|\-\-\-+))\n
\*   kind "bullet": ^(?P<depth>\s*)\-\s+ without re.MULTILINE
\*   kind "tag": #(?P<name>[\w\d\-_]+), whose group is reported as cs, ce
Search(p, w) ==
    IF p.kind = "lit" THEN
        Leftmost({Span(i, i + Len(p.s)) :
                     i \in {h \in 0..(Len(w) - Len(p.s)) : StartsWith(w, h + 1, p.s)}})
    ELSE IF p.kind = "star" THEN
        Span(0, RunLength(w, 1, p.s[1]))
    ELSE IF p.kind = "plus" THEN
        Leftmost({Span(i, i + RunLength(w, i + 1, p.s[1])) :
                     i \in {h \in 0..(Len(w) - 1) : w[h + 1] = p.s[1]}})
    ELSE IF p.kind = "anchored" THEN
        IF StartsWith(w, 1, p.s) THEN Span(0, Len(p.s)) ELSE NoMatch
    ELSE IF p.kind \in {"heading", "underlined"} THEN
        Leftmost({MatchAt(p.kind, w, i) : i \in 0..(Len(w) - 1)} \ {NoMatch})
    ELSE IF p.kind = "tag" THEN
        Leftmost({TagAt(w, i) : i \in 0..(Len(w) - 1)} \ {NoMatch})
    ELSE BulletAfter(w, SpaceRun(w, 1))

\* Fragment.__init__: the window [start, end) and its text
FragmentText(src, f) == Slice(src, f.start, f.end)

\* Fragment.to
FragmentTo(src, f, off) ==
    LET size == f.end - f.start
    IN  IF off >= Len(src) THEN NoFragment
        ELSE [start |-> off, end |-> Min2(Len(src), off + size)]

\* Fragment.shift
FragmentShift(src, f, amount) ==
    IF f.end = Len(src) THEN NoFragment
    ELSE [start |-> f.start + amount, end |-> Min2(Len(src), f.end + amount)]

\* the match m of the window text in source offsets, o being the window's
\* start: Fragment(fragment.source, o + match.start(0), o + match.end(0))
Shifted(m, o) ==
    IF m = NoMatch THEN NoMatch
    ELSE [start |-> o + m.start, end |-> o + m.end,
          cs |-> IF m.cs < 0 THEN m.cs ELSE o + m.cs,
          ce |-> IF m.ce < 0 THEN m.ce ELSE o + m.ce]

\* Pattern.recognizes: the match with its fragment in source offsets, or
\* NoMatch
Recognizes(src, p, f) == Shifted(Search(p, FragmentText(src, f)), f.start)

\* what the generator yields for the pattern called name: the pair (name,
\* match) found in window number w, nothing when recognizes returned None
PairOf(name, m, w) ==
    IF m = NoMatch THEN <<>>
    ELSE <<[name |-> name, start |-> m.start, end |-> m.end,
            cs |-> m.cs, ce |-> m.ce, window |-> w]>>

\* the generator handed to sorted(): the matching patterns in mapping order
RECURSIVE MatchedPairs(_, _, _, _)
MatchedPairs(src, ps, f, w) ==
    IF ps = <<>> THEN <<>>
    ELSE PairOf(Head(ps).name, Recognizes(src, Head(ps), f), w)
             \o MatchedPairs(src, Tail(ps), f, w)

\* insert x after every element whose start is not greater (stable)
RECURSIVE InsertSorted(_, _)
InsertSorted(sorted, x) ==
    IF sorted = <<>> THEN <<x>>
    ELSE IF Head(sorted).start <= x.start
         THEN <<Head(sorted)>> \o InsertSorted(Tail(sorted), x)
         ELSE <<x>> \o sorted

\* insert x before the elements of equal start: a sort that is not stable
RECURSIVE InsertSortedTiesFirst(_, _)
InsertSortedTiesFirst(sorted, x) ==
    IF sorted = <<>> THEN <<x>>
    ELSE IF Head(sorted).start < x.start
         THEN <<Head(sorted)>> \o InsertSortedTiesFirst(Tail(sorted), x)
         ELSE <<x>> \o sorted

RECURSIVE SortTiesReversed(_)
SortTiesReversed(pairs) ==
    IF pairs = <<>> THEN <<>>
    ELSE InsertSortedTiesFirst(SortTiesReversed(SubSeq(pairs, 1, Len(pairs) - 1)),
                               pairs[Len(pairs)])

\* no sort at all: the pairs in mapping order
Unsorted(pairs) == pairs

\* sorted(pairs, key=lambda _: _[1].fragment.start): Python's sort is stable
RECURSIVE SortedByStart(_)
SortedByStart(pairs) ==
    IF pairs = <<>> THEN <<>>
    ELSE InsertSorted(SortedByStart(SubSeq(pairs, 1, Len(pairs) - 1)),
                      pairs[Len(pairs)])

\* match_end after the for loop: the largest end, 0 when nothing matched
RECURSIVE MatchEnd(_)
MatchEnd(pairs) ==
    IF pairs = <<>> THEN 0 ELSE Max2(Head(pairs).end, MatchEnd(Tail(pairs)))

\* The pool the pattern mappings are drawn from: "ab", "a", a*, b+
PatternPool ==
    { [name |-> "A", kind |-> "lit", s |-> <<"a", "b">>],
      [name |-> "B", kind |-> "lit", s |-> <<"a">>],
      [name |-> "E", kind |-> "star", s |-> <<"a">>],
      [name |-> "N", kind |-> "plus", s |-> <<"b">>] }

\* a dict has one entry per key
PatternMaps ==
    {ps \in SeqsUpTo(PatternPool, MaxPatterns) :
        \A i \in 1..Len(ps), j \in 1..Len(ps) : ps[i].name = ps[j].name => i = j}

\* fragment.to(match_end) if match_end else fragment.shift(lookahead)
NextWindow(src, f, la, match_end) ==
    IF match_end # 0 THEN FragmentTo(src, f, match_end)
    ELSE FragmentShift(src, f, la)

\* one iteration of the while loop of parse, with the pairs it yields
ScanStep ==
    /\ fragment # NoFragment
    /\ windows < MaxWindows
    /\ LET pairs == SortedByStart(MatchedPairs(text, patterns, fragment, windows))
           match_end == MatchEnd(pairs)
       IN  /\ out' = out \o pairs
           /\ fragment' = NextWindow(text, fragment, lookahead, match_end)
    /\ windows' = windows + 1
    /\ UNCHANGED <<text, patterns, lookahead>>
    /\ UNCHANGED <<treeVars, blockVars, queryVars, ndVars, inlineVars, ruleVars, lineVars, storeVars, copyVars, axisVars, orderVars, selVars, writerVars, indentVars>>

\* parse(patterns, text, lookahead) up to its first window
InitScan ==
    /\ text \in Texts
    /\ patterns \in PatternMaps
    /\ lookahead \in 1..MaxLookahead
    /\ fragment = [start |-> 0, end |-> lookahead]
    /\ out = <<>>
    /\ windows = 0
    /\ IdleTree
    /\ IdleBlocks
    /\ IdleQuery
    /\ IdleNd
    /\ IdleInline
    /\ IdleRules
    /\ IdleLines
    /\ IdleStore
    /\ IdleCopy
    /\ IdleAxis
    /\ IdleOrder
    /\ IdleSelections
    /\ IdleWriters
    /\ IdleIndent

NextScan == ScanStep

SpecScan == InitScan /\ [][NextScan]_vars

\* the position of the pattern called name in the mapping
PatternIndex(name) == CHOOSE i \in 1..Len(patterns) : patterns[i].name = name

\* C6: two patterns that match at the same start offset within a window are
\* emitted in the order of the mapping.
C6_TieOrder ==
    \A i \in 1..Len(out), j \in 1..Len(out) :
        (/\ i < j
         /\ out[i].window = out[j].window
         /\ out[i].start = out[j].start)
        => PatternIndex(out[i].name) < PatternIndex(out[j].name)

\* two patterns matched at the same offset in a window past the first
C6_Witness ==
    \E i \in 1..Len(out), j \in 1..Len(out) :
        /\ i < j
        /\ out[i].window = out[j].window
        /\ out[i].window > 0
        /\ out[i].start = out[j].start
        /\ out[i].end # out[j].end

\* C9: the pairs are yielded in non-decreasing order of start offset over
\* the whole output.
C9_StartsOrdered ==
    \A i \in 1..Len(out), j \in 1..Len(out) : i < j => out[i].start <= out[j].start

\* the scan is over, it went through several windows, and within one window
\* the later pattern of the mapping matched first in the text
C9_Witness ==
    /\ fragment = NoFragment
    /\ \E i \in 1..Len(out), j \in 1..Len(out) :
           /\ out[i].window = out[j].window
           /\ out[i].start < out[j].start
           /\ PatternIndex(out[i].name) > PatternIndex(out[j].name)
    /\ \E i \in 1..Len(out), j \in 1..Len(out) : out[i].window < out[j].window

\* C10: each iteration of the scanner's loop moves the window start strictly
\* forward or ends the scan.
C10_Progress ==
    [][ScanStep => IF fragment' = NoFragment THEN TRUE ELSE fragment'.start > fragment.start]_vars

\* the positions in o of the pairs yielded in window number w
EmittedIn(o, w) == {i \in 1..Len(o) : o[i].window = w}

\* the largest end offset among the pairs of o at the positions S
LargestEnd(o, S) ==
    CHOOSE e \in {o[i].end : i \in S} : \A i \in S : o[i].end <= e

\* C31: when a window is followed by another one, the next window starts at
\* the largest end offset among the pairs yielded in the window if there is
\* one (an empty match that ends at offset 0 included), and lookahead
\* characters further if nothing matched.
C31_NextWindowStart ==
    [][(ScanStep /\ fragment' # NoFragment)
       => IF EmittedIn(out', windows) # {}
          THEN fragment'.start = LargestEnd(out', EmittedIn(out', windows))
          ELSE fragment'.start = fragment.start + lookahead]_vars

\* the same, leaving out the windows whose largest end offset is 0
C31_NextWindowStartPastZero ==
    [][(ScanStep /\ fragment' # NoFragment)
       => IF EmittedIn(out', windows) # {}
          THEN \/ LargestEnd(out', EmittedIn(out', windows)) = 0
               \/ fragment'.start = LargestEnd(out', EmittedIn(out', windows))
          ELSE fragment'.start = fragment.start + lookahead]_vars

\* parse(ps, src, la) as a whole, from the window f on, window number w: the
\* pairs of at most MaxWindows windows
RECURSIVE ScanFrom(_, _, _, _, _)
RECURSIVE ScanRest(_, _, _, _, _, _)
ScanFrom(src, ps, la, f, w) ==
    IF f = NoFragment \/ w >= MaxWindows THEN <<>>
    ELSE ScanRest(src, ps, la, f, w, SortedByStart(MatchedPairs(src, ps, f, w)))

\* the pairs of the window f, then those of the windows that follow it
ScanRest(src, ps, la, f, w, pairs) ==
    pairs \o ScanFrom(src, ps, la, NextWindow(src, f, la, MatchEnd(pairs)), w + 1)

\* the (name, start, end) of the pairs of o
Yields(o) == {<<o[i].name, o[i].start, o[i].end>> : i \in 1..Len(o)}

\* what parse yields with the pattern p alone in the mapping
YieldsAlone(src, p, la) ==
    Yields(ScanFrom(src, <<p>>, la, [start |-> 0, end |-> la], 0))

\* C32: for a text no longer than the lookahead, once the scan with the whole
\* mapping is over, every pair (name, match) that the scan with one pattern of
\* the mapping alone yields is among the pairs yielded with the whole mapping.
C32_AddingPatternsKeepsMatches ==
    (Len(text) <= lookahead /\ (fragment = NoFragment \/ windows = MaxWindows))
    => \A i \in 1..Len(patterns) :
           YieldsAlone(text, patterns[i], lookahead) \subseteq Yields(out)

\* the action and the whole-scan operator agree: what has been yielded so far
\* is the beginning of the whole scan
ScanFromAgrees ==
    out = SubSeq(ScanFrom(text, patterns, lookahead, [start |-> 0, end |-> lookahead], 0),
                 1, Len(out))

\* C33: every pair yielded in a window has 0 <= start <= end <= len(text)
\* and lies inside that window, from the window's start to its end.
C33_MatchesInsideTextAndWindow ==
    [][ScanStep
       => \A i \in (Len(out) + 1)..Len(out') :
              /\ 0 <= out'[i].start
              /\ out'[i].start <= out'[i].end
              /\ out'[i].end <= Len(text)
              /\ fragment.start <= out'[i].start
              /\ out'[i].end <= fragment.end]_vars

\* the same for the windows that start inside the text
C33_MatchesInsideWhenWindowInText ==
    [][(ScanStep /\ fragment.start <= Len(text))
       => \A i \in (Len(out) + 1)..Len(out') :
              /\ 0 <= out'[i].start
              /\ out'[i].start <= out'[i].end
              /\ out'[i].end <= Len(text)
              /\ fragment.start <= out'[i].start
              /\ out'[i].end <= fragment.end]_vars

----------------------------------------------------------------------------
(* The block parser: research/ndparser.py, parseBlocks *)

NoPrefix == [kind |-> "none", s |-> <<>>]

\* the number of spaces of line from the 1-based position i on
Spaces(line, i) == RunLength(line, i, " ")

\* the number of spaces and tabs of line from the 1-based position i on
RECURSIVE Blanks(_, _)
Blanks(line, i) ==
    IF i > Len(line) \/ line[i] \notin {" ", "\t"} THEN 0 ELSE 1 + Blanks(line, i + 1)

\* re.Pattern.match(line) for a Prefix: the end offset of the match (its start
\* is always 0), or -1 when the prefix does not match.  The prefixes modelled:
\*   kind "lit":      ^s[ ]*              (prefix("--[ ]*"))
\*   kind "run":      ^c+[ ]*             (prefix("#+[ ]*"))
\*   kind "indented": ^[ ]*s[ ]*          (prefix("(?P<bullet>[-*])[ ]*", indented=True))
\*   kind "empty":    ^[ \t]*$           (prefix(r"[ \t]*$"))
\*   kind "fence":    ^s.*$               (the Fence prefix, three backquotes
\*                                         and the rest of the line; the
\*                                         character "F" stands for a backquote)
PrefixMatch(prefix, line) ==
    IF prefix.kind = "lit" THEN
        IF StartsWith(line, 1, prefix.s)
        THEN Len(prefix.s) + Spaces(line, Len(prefix.s) + 1)
        ELSE 0 - 1
    ELSE IF prefix.kind = "run" THEN
        LET n == RunLength(line, 1, prefix.s[1])
        IN  IF n > 0 THEN n + Spaces(line, n + 1) ELSE 0 - 1
    ELSE IF prefix.kind = "indented" THEN
        LET indent == Spaces(line, 1)
        IN  IF StartsWith(line, indent + 1, prefix.s)
            THEN indent + Len(prefix.s) + Spaces(line, indent + Len(prefix.s) + 1)
            ELSE 0 - 1
    ELSE IF prefix.kind = "empty" THEN
        IF Blanks(line, 1) = Len(line)
           \/ (Blanks(line, 1) = Len(line) - 1 /\ line[Len(line)] = "\n")
        THEN Blanks(line, 1)
        ELSE 0 - 1
    ELSE IF prefix.kind = "fence" THEN
        LET newlines == {i \in 1..Len(line) : line[i] = "\n"}
        IN  IF ~StartsWith(line, 1, prefix.s) THEN 0 - 1
            ELSE IF newlines = {} THEN Len(line)
            ELSE IF newlines = {Len(line)} /\ Len(line) > Len(prefix.s) - 1
                 THEN Len(line) - 1
            ELSE 0 - 1
    ELSE 0 - 1

Matches(prefix, line) == PrefixMatch(prefix, line) >= 0

\* asSpaces: len(m.group()) * " "
AsSpaces(n) == [i \in 1..n |-> " "]

\* the first line of a block started by entry b on line:
\* f"{b.start.extract(m)}{t}" if b.start.extract else t, with t = line[m.end():]
FirstLine(b, line) ==
    LET e == PrefixMatch(b.start, line)
        t == SubSeq(line, e + 1, Len(line))
    IN  IF b.extract THEN AsSpaces(e) \o t ELSE t

\* The grammar entries the mappings are drawn from (Lines | Blocks)
Meta ==
    [name |-> "Meta", isBlock |-> FALSE, start |-> [kind |-> "lit", s |-> <<"-", "-">>],
     extract |-> FALSE, end |-> NoPrefix, sequential |-> FALSE, nested |-> FALSE]

Heading ==
    [name |-> "Heading", isBlock |-> FALSE, start |-> [kind |-> "run", s |-> <<"#">>],
     extract |-> FALSE, end |-> NoPrefix, sequential |-> FALSE, nested |-> FALSE]

Code ==
    [name |-> "Code", isBlock |-> TRUE,
     start |-> [kind |-> "fence", s |-> <<"F", "F", "F">>],
     extract |-> FALSE,
     end |-> [kind |-> "fence", s |-> <<"F", "F", "F">>],
     sequential |-> FALSE, nested |-> FALSE]

UnorderdedListItem ==
    [name |-> "UnorderdedListItem", isBlock |-> TRUE,
     start |-> [kind |-> "indented", s |-> <<"-">>],
     extract |-> TRUE, end |-> NoPrefix, sequential |-> TRUE, nested |-> TRUE]

\* the number of the item is one character of [0-9a-zA-Z]; the lines
\* modelled hold the digit 1 only
OrderedListItem ==
    [name |-> "OrderedListItem", isBlock |-> TRUE,
     start |-> [kind |-> "indented", s |-> <<"1", ")">>],
     extract |-> TRUE, end |-> NoPrefix, sequential |-> TRUE, nested |-> TRUE]

Empty ==
    [name |-> "Empty", isBlock |-> TRUE, start |-> [kind |-> "empty", s |-> <<>>],
     extract |-> FALSE, end |-> NoPrefix, sequential |-> FALSE, nested |-> FALSE]

\* MatchedBlock("", None, [line]): the block of a text run has no entry
TextEntry ==
    [name |-> "", isBlock |-> FALSE, start |-> NoPrefix,
     extract |-> FALSE, end |-> NoPrefix, sequential |-> FALSE, nested |-> FALSE]

EntryPool == {Meta, Heading, Code, UnorderdedListItem}

Grammars ==
    {g \in SeqsUpTo(EntryPool, MaxEntries) :
        \A i \in 1..Len(g), j \in 1..Len(g) : g[i].name = g[j].name => i = j}

LinePool ==
    { <<"x">>,
      <<"-", " ", "x">>,
      <<"-", "-", "x">>,
      <<"#", "x">>,
      <<"F", "F", "F">>,
      <<"F", "F", "F", "p", "\n">> }

Inputs == SeqsUpTo(LinePool, MaxLines)

\* len(m.groupdict().get("indented", "")) for the match m of prefix on line
IndentedLength(prefix, line) ==
    IF prefix.kind = "indented" THEN PrefixMatch(prefix, line) - Spaces(line, 1) ELSE 0

\* MatchedBlock(name, block, lines, start, end): indented is the length of
\* the group "indented" of start (0 without it), ended is "end is not None"
MatchedBlock(name, b, lines, indented) ==
    [name |-> name, block |-> b, lines |-> lines, indented |-> indented,
     ended |-> FALSE]

\* cur and cur.block and isinstance(cur.block, Block) and cur.block.end
InExplicitBlock(c) ==
    /\ c # <<>>
    /\ c[1].block.isBlock
    /\ c[1].block.end # NoPrefix

\* for k, b in blocks.items(): if m := b.start.text.match(line): ... break
\* gives the position of the last entry that matches instead of the first
LastMatching(g, line) ==
    IF \E i \in 1..Len(g) : Matches(g[i].start, line)
    THEN CHOOSE i \in 1..Len(g) :
             Matches(g[i].start, line) /\ \A j \in (i+1)..Len(g) : ~Matches(g[j].start, line)
    ELSE 0

\* for k, b in blocks.items(): if m := b.start.text.match(line): ... break
\* the position of the entry whose block is started, 0 when none matches
RECURSIVE FirstMatchingFrom(_, _, _)
FirstMatchingFrom(g, line, i) ==
    IF i > Len(g) THEN 0
    ELSE IF Matches(g[i].start, line) THEN i
    ELSE FirstMatchingFrom(g, line, i + 1)

FirstMatching(g, line) == FirstMatchingFrom(g, line, 1)

\* cur.lines.append(line) that drops the last character of the line
AppendLineCut(c, line) ==
    <<[c[1] EXCEPT !.lines = Append(@, SubSeq(line, 1, Len(line) - 1))]>>

\* cur.lines.append(line), line unchanged
AppendLine(c, line) == <<[c[1] EXCEPT !.lines = Append(@, line)]>>

\* a text block is started for every line that matches no start Prefix
StartsTextAlways(c) == TRUE

\* if not cur or cur.name != "": the line starts a text block
StartsText(c) == c = <<>> \/ c[1].name # ""

\* the body of "for line in input" for one line
BlocksLine ==
    /\ ~done
    /\ pos < Len(input)
    /\ LET line == input[pos + 1]
       IN  IF InExplicitBlock(cur)
           THEN IF Matches(cur[1].block.end, line)
                THEN /\ emitted' = Append(emitted,
                            [cur[1] EXCEPT !.lines = Append(@, SubSeq(line, 1, 0)),
                                           !.ended = TRUE])
                     /\ cur' = <<>>
                ELSE /\ cur' = AppendLine(cur, line)
                     /\ emitted' = emitted
           ELSE LET k == FirstMatching(grammar, line)
                    flushed == emitted \o cur
                IN  IF k # 0
                    THEN LET matched == MatchedBlock(grammar[k].name, grammar[k],
                                                     <<FirstLine(grammar[k], line)>>,
                                                     IndentedLength(grammar[k].start, line))
                         IN  IF grammar[k].isBlock
                             THEN /\ cur' = <<matched>>
                                  /\ emitted' = flushed
                             ELSE /\ cur' = <<>>
                                  /\ emitted' = Append(flushed, matched)
                    ELSE IF StartsText(cur)
                         THEN /\ cur' = <<MatchedBlock("", TextEntry, <<line>>, 0)>>
                              /\ emitted' = flushed
                         ELSE /\ cur' = AppendLine(cur, line)
                              /\ emitted' = emitted
    /\ pos' = pos + 1
    /\ UNCHANGED <<input, grammar, done>>
    /\ UNCHANGED <<treeVars, scanVars, queryVars, ndVars, inlineVars, ruleVars, lineVars, storeVars, copyVars, axisVars, orderVars, selVars, writerVars, indentVars>>

\* the generator drops what is left in cur
FinishDropping == emitted

\* after the loop: if cur: yield cur
FinishEmitted == emitted \o cur

BlocksFinish ==
    /\ ~done
    /\ pos = Len(input)
    /\ emitted' = FinishEmitted
    /\ cur' = cur
    /\ done' = TRUE
    /\ UNCHANGED <<input, grammar, pos>>
    /\ UNCHANGED <<treeVars, scanVars, queryVars, ndVars, inlineVars, ruleVars, lineVars, storeVars, copyVars, axisVars, orderVars, selVars, writerVars, indentVars>>

InitBlocks ==
    /\ input \in Inputs
    /\ grammar \in Grammars
    /\ pos = 0
    /\ cur = <<>>
    /\ emitted = <<>>
    /\ done = FALSE
    /\ IdleTree
    /\ IdleScan
    /\ IdleQuery
    /\ IdleNd
    /\ IdleInline
    /\ IdleRules
    /\ IdleLines
    /\ IdleStore
    /\ IdleCopy
    /\ IdleAxis
    /\ IdleOrder
    /\ IdleSelections
    /\ IdleWriters
    /\ IdleIndent

NextBlocks == BlocksLine \/ BlocksFinish

SpecBlocks == InitBlocks /\ [][NextBlocks]_vars

\* the entries of the grammar whose start Prefix matches the line
MatchingEntries(line) == {i \in 1..Len(grammar) : Matches(grammar[i].start, line)}

\* the blocks yielded or current
AllBlocks == emitted \o cur

\* C7: a line handled outside an open explicit block that matches the start
\* Prefix of several entries starts the block of the first of them in the
\* grammar's order, and starts exactly one block.
C7_FirstMatchWins ==
    [][(/\ BlocksLine
        /\ ~InExplicitBlock(cur)
        /\ Cardinality(MatchingEntries(input[pos + 1])) >= 2)
       => LET first == CHOOSE i \in MatchingEntries(input[pos + 1]) :
                           \A j \in MatchingEntries(input[pos + 1]) : i <= j
              before == emitted \o cur
              after == emitted' \o cur'
          IN  /\ Len(after) = Len(before) + 1
              /\ SubSeq(after, 1, Len(before)) = before
              /\ after[Len(after)].name = grammar[first].name
              /\ after[Len(after)].block = grammar[first]
              /\ after[Len(after)].lines = <<FirstLine(grammar[first], input[pos + 1])>>
      ]_vars

\* a Meta block was started by the line "--x" under a grammar in which the
\* list item entry, which matches that line too, comes second
C7_Witness ==
    /\ Len(grammar) = 2
    /\ grammar[1].name = "Meta"
    /\ grammar[2].name = "UnorderdedListItem"
    /\ pos > 0
    /\ input[pos] = <<"-", "-", "x">>
    /\ emitted # <<>>
    /\ emitted[Len(emitted)].name = "Meta"
    /\ cur = <<>>

\* C8: when the input ends while an explicit block is open, that block is
\* the last one yielded, and its lines are the opener's remainder followed
\* by every later input line, in order and unchanged.
C8_OpenBlockEmitted ==
    [][(/\ BlocksFinish
        /\ InExplicitBlock(cur))
       => /\ emitted' = Append(emitted, cur[1])
          /\ \E k \in 1..Len(input) :
                 /\ Matches(cur[1].block.start, input[k])
                 /\ cur[1].lines = <<FirstLine(cur[1].block, input[k])>>
                                       \o SubSeq(input, k + 1, Len(input))
      ]_vars

\* the input ended in an open Code block that holds two lines after its opener
C8_Witness ==
    /\ done
    /\ emitted # <<>>
    /\ emitted[Len(emitted)].name = "Code"
    /\ ~emitted[Len(emitted)].ended
    /\ Len(emitted[Len(emitted)].lines) = 3

\* C25: while an explicit block is open, a line that does not match its end
\* Prefix is appended to it unchanged, no block is yielded and the block stays
\* open, whatever start Prefix the line matches; a line that matches the end
\* Prefix has the content before the delimiter (the prefixes are anchored at
\* the start of the line: nothing) appended, the block is yielded as ended
\* and there is no current block for the next line.
C25_OpenBlockTakesLines ==
    [][(/\ BlocksLine
        /\ InExplicitBlock(cur))
       => IF Matches(cur[1].block.end, input[pos + 1])
          THEN /\ cur' = <<>>
               /\ Len(emitted') = Len(emitted) + 1
               /\ SubSeq(emitted', 1, Len(emitted)) = emitted
               /\ emitted'[Len(emitted')].name = cur[1].name
               /\ emitted'[Len(emitted')].block = cur[1].block
               /\ emitted'[Len(emitted')].ended
               /\ emitted'[Len(emitted')].lines = Append(cur[1].lines, <<>>)
          ELSE /\ emitted' = emitted
               /\ InExplicitBlock(cur')
               /\ cur'[1].name = cur[1].name
               /\ cur'[1].block = cur[1].block
               /\ cur'[1].lines = Append(cur[1].lines, input[pos + 1])
      ]_vars

\* under a grammar with Heading, a Code block took the line "#x", which
\* matches the start Prefix of Heading, and was closed by the next line
C25_Witness ==
    /\ \E i \in 1..Len(grammar) : grammar[i].name = "Heading"
    /\ cur = <<>>
    /\ emitted # <<>>
    /\ emitted[Len(emitted)].name = "Code"
    /\ emitted[Len(emitted)].ended
    /\ Len(emitted[Len(emitted)].lines) = 3
    /\ emitted[Len(emitted)].lines[2] = <<"#", "x">>
    /\ emitted[Len(emitted)].lines[3] = <<>>

----------------------------------------------------------------------------
(* The query engine: research/tree-patterns.py, Query *)

QNodes == 1..QueryNodes

NodeNames == {"paragraph", "paragraph:first", "#text"}
QueryNames == {"paragraph", "*"}

\* node.name.split(":", 1)[0]
BaseName(name) ==
    IF name = "paragraph:first" THEN "paragraph" ELSE name

\* Query.match: fnmatch(name, self.name) for a pattern that is a literal or "*"
QueryMatch(q, n) == q = "*" \/ BaseName(nodeName[n]) = q

\* Node.descendants: the children, each followed by its own descendants
RECURSIVE DescendantsOfList(_, _)
DescendantsOfList(kids, depth) ==
    IF kids = <<>> \/ depth = 0 THEN <<>>
    ELSE <<Head(kids)>> \o DescendantsOfList(children[Head(kids)], depth - 1)
                        \o DescendantsOfList(Tail(kids), depth)

Descendants(n) == DescendantsOfList(children[n], QueryNodes)

\* the position after i of the next descendant that matches, 0 when none is left
NextMatch(q, ds, i) ==
    IF \E j \in (i+1)..Len(ds) : QueryMatch(q, ds[j])
    THEN CHOOSE j \in (i+1)..Len(ds) :
             QueryMatch(q, ds[j]) /\ \A k \in (i+1)..(j-1) : ~QueryMatch(q, ds[k])
    ELSE 0

\* matchIter, descendants axis:
\*   if previous and child.parent != previous: group += 1
GroupOfMatch(child, previous, group) ==
    IF previous # None /\ parent[child] # previous THEN group + 1 ELSE group

\* matchGroups that never ends a list: "if g != group and res" taken as false
GroupEndsNever(g, m) == FALSE

\* matchGroups: if g != group and res
GroupEnds(g, m) == g # m.group /\ m.res # <<>>

\* one iteration of "for g, n in self.matchIter(node)" in matchGroups: the
\* generator runs to its next match and yields (g, n), the loop body files n
QueryNext ==
    /\ ~qdone
    /\ LET ds == Descendants(qnode)
           j == NextMatch(query, ds, it.pos)
       IN  /\ j # 0
           /\ LET n == ds[j]
                  g == GroupOfMatch(n, it.previous, it.group)
              IN  /\ it' = [pos |-> j, group |-> g, previous |-> n]
                  /\ IF GroupEnds(g, mg)
                     THEN /\ groups' = Append(groups, mg.res)
                          /\ mg' = [group |-> g, res |-> <<n>>]
                     ELSE /\ groups' = groups
                          /\ mg' = [group |-> g, res |-> Append(mg.res, n)]
    /\ UNCHANGED <<nodeName, query, qnode, qdone>>
    /\ UNCHANGED <<treeVars, scanVars, blockVars, ndVars, inlineVars, ruleVars, lineVars, storeVars, copyVars, axisVars, orderVars, selVars, writerVars, indentVars>>

\* the generator is exhausted: if res: yield res
QueryFinish ==
    /\ ~qdone
    /\ NextMatch(query, Descendants(qnode), it.pos) = 0
    /\ groups' = IF mg.res # <<>> THEN Append(groups, mg.res) ELSE groups
    /\ qdone' = TRUE
    /\ UNCHANGED <<nodeName, query, qnode, it, mg>>
    /\ UNCHANGED <<treeVars, scanVars, blockVars, ndVars, inlineVars, ruleVars, lineVars, storeVars, copyVars, axisVars, orderVars, selVars, writerVars, indentVars>>

\* the children lists of the tree in which node i was added to parents[i],
\* the nodes being created and added in the order of their ids
ChildrenOf(parents) ==
    [p \in QNodes |->
        LET kids == {c \in QNodes : parents[c] = p}
            RECURSIVE Sorted(_)
            Sorted(S) == IF S = {} THEN <<>>
                         ELSE LET m == CHOOSE x \in S : \A y \in S : x <= y
                              IN  <<m>> \o Sorted(S \ {m})
        IN  Sorted(kids)]

\* a document tree rooted at node 1, and a query started at one of its nodes
InitQuery ==
    /\ parent \in {f \in [QNodes -> QNodes \cup {None}] :
                      /\ f[1] = None
                      /\ \A c \in QNodes \ {1} : f[c] # None /\ f[c] < c}
    /\ children = ChildrenOf(parent)
    /\ err = FALSE
    /\ op = "init"
    /\ nodeName \in {f \in [QNodes -> NodeNames \cup {"document"}] :
                        /\ f[1] = "document"
                        /\ \A c \in QNodes \ {1} : f[c] \in NodeNames}
    /\ query \in QueryNames
    /\ qnode \in QNodes
    /\ it = [pos |-> 0, group |-> 0, previous |-> None]
    /\ mg = [group |-> 0, res |-> <<>>]
    /\ groups = <<>>
    /\ qdone = FALSE
    /\ IdleScan
    /\ IdleBlocks
    /\ IdleNd
    /\ IdleInline
    /\ IdleRules
    /\ IdleLines
    /\ IdleStore
    /\ IdleCopy
    /\ IdleAxis
    /\ IdleOrder
    /\ IdleSelections
    /\ IdleWriters
    /\ IdleIndent

NextQuery == QueryNext \/ QueryFinish

SpecQuery == InitQuery /\ [][NextQuery]_vars

\* the matching descendants of the start node, in document order
Matching == SelectSeq(Descendants(qnode), LAMBDA n : QueryMatch(query, n))

\* the matching descendants are all children of one parent, side by side
AdjacentSiblings(ms) ==
    /\ ms # <<>>
    /\ \A i \in 1..(Len(ms) - 1) :
           /\ parent[ms[i + 1]] = parent[ms[i]]
           /\ IndexOf(children[parent[ms[i]]], ms[i + 1])
                  = IndexOf(children[parent[ms[i]]], ms[i]) + 1

\* the group numbers matchIter yields with the nodes ms, the first one
\* after the item (group, previous)
RECURSIVE GroupNumbers(_, _, _)
GroupNumbers(ms, previous, group) ==
    IF ms = <<>> THEN <<>>
    ELSE <<GroupOfMatch(Head(ms), previous, group)>>
             \o GroupNumbers(Tail(ms), Head(ms), GroupOfMatch(Head(ms), previous, group))

\* the group numbers of the items of matchIter(qnode), in order
MatchIterGroups == GroupNumbers(Matching, None, 0)

\* the lists of ls, concatenated
RECURSIVE Concatenated(_)
Concatenated(ls) == IF ls = <<>> THEN <<>> ELSE Head(ls) \o Concatenated(Tail(ls))

\* the position in groups of the group that holds n
GroupIndex(n) ==
    CHOOSE g \in 1..Len(groups) : \E i \in 1..Len(groups[g]) : groups[g][i] = n

\* C4: a descendants query whose N matching nodes are adjacent children of
\* one parent yields exactly one group, the N nodes in document order.
C4_OneGroup ==
    (qdone /\ AdjacentSiblings(Matching)) => groups = <<Matching>>

\* C5: two consecutive matches that are children of the same parent share a
\* group exactly when no sibling stands between them: a group boundary falls
\* where adjacency breaks, and only there.
C5_BoundaryWhereAdjacencyBreaks ==
    qdone =>
        \A i \in 1..(Len(Matching) - 1) :
            LET x == Matching[i]
                y == Matching[i + 1]
            IN  parent[x] = parent[y] =>
                    ((GroupIndex(x) = GroupIndex(y))
                        <=> (IndexOf(children[parent[x]], y)
                                 = IndexOf(children[parent[x]], x) + 1))

\* C23: the lists matchGroups yields, concatenated in order, are the nodes
\* matchIter yields; no list is empty; the nodes of one list carry one group
\* number, and two consecutive items of matchIter with different group
\* numbers are in different lists.
C23_GroupsPartitionMatches ==
    qdone =>
        /\ Concatenated(groups) = Matching
        /\ \A g \in 1..Len(groups) : groups[g] # <<>>
        /\ \A i \in 1..Len(Matching), j \in 1..Len(Matching) :
               GroupIndex(Matching[i]) = GroupIndex(Matching[j])
                   => MatchIterGroups[i] = MatchIterGroups[j]
        /\ \A i \in 1..(Len(Matching) - 1) :
               MatchIterGroups[i] # MatchIterGroups[i + 1]
                   => GroupIndex(Matching[i]) # GroupIndex(Matching[i + 1])

\* matchGroups has returned three lists: one of a single node, and one of
\* two nodes or more
C23_Witness ==
    /\ qdone
    /\ Len(groups) = 3
    /\ \E g \in 1..3 : Len(groups[g]) = 1
    /\ \E g \in 1..3 : Len(groups[g]) >= 2

----------------------------------------------------------------------------
(* The nd format: nota/format/nd.py, structure, tree and parse *)

\* the characters of the modelled documents
NdAlphabet == {"#", " ", "-", "\n", "x"}
NdTexts == SeqsUpTo(NdAlphabet, MaxNdText)

\* the default lookahead of parsing.parse, which structure does not override
DefaultLookahead == 80 * 20

\* STRUCTURE, in the order of the dict.  Its entries list-item:numeric,
\* list-item:alpha and code need a digit, the literal "[a-z])" or a code
\* fence, which no text over NdAlphabet has: they never match and are left out.
STRUCTURE ==
    << [name |-> "heading:prefixed", kind |-> "heading", s |-> <<>>],
       [name |-> "heading:suffixed", kind |-> "underlined", s |-> <<>>],
       [name |-> "list-item:bullet", kind |-> "bullet", s |-> <<>>],
       [name |-> "paragraph", kind |-> "plus", s |-> <<"\n">>],
       [name |-> "block", kind |-> "anchored", s |-> <<"-", "-">>] >>

\* indentation(line, tabsize=4)
RECURSIVE IndentFrom(_, _, _)
IndentFrom(line, i, indent) ==
    IF i > Len(line) THEN indent
    ELSE IF line[i] = " " THEN IndentFrom(line, i + 1, indent + 1)
    ELSE IF line[i] = "\t" THEN IndentFrom(line, i + 1, indent + (4 - (indent % 4)))
    ELSE indent

Indentation(line) == IndentFrom(line, 1, 0)

\* Block(name, indentation, content); the name None is ""
Block(name, indent, content) ==
    [name |-> name, indentation |-> indent, content |-> content]

\* one iteration of the for loop of structure, on the next pair of the scan
StructureStep ==
    /\ ~ndDone
    /\ consumed < Len(out)
    /\ LET delimiter == out[consumed + 1]
           before == Slice(text, offset, delimiter.start)
           kept == IF before = <<>> THEN blocks
                   ELSE IF block = 0
                        THEN Append(blocks, Block("", Indentation(before), <<before>>))
                        ELSE [blocks EXCEPT ![block] =
                                 Block(@.name,
                                       IF @.indentation = 0 - 1
                                       THEN Indentation(before) ELSE @.indentation,
                                       Append(@.content, before))]
           content == Slice(text, delimiter.cs, delimiter.ce)
           new == IF delimiter.cs >= 0
                  THEN Block(delimiter.name, Indentation(content), <<content>>)
                  ELSE Block(delimiter.name, 0 - 1, <<>>)
       IN  /\ blocks' = Append(kept, new)
           /\ block' = Len(kept) + 1
           /\ offset' = delimiter.end
    /\ consumed' = consumed + 1
    /\ UNCHANGED <<doc, ndDone>>
    /\ UNCHANGED <<treeVars, scanVars, blockVars, queryVars, inlineVars, ruleVars, lineVars, storeVars, copyVars, axisVars, orderVars, selVars, writerVars, indentVars>>

\* the scanner runs when the for loop of structure asks for the next pair
NdScan ==
    /\ ~ndDone
    /\ consumed = Len(out)
    /\ ScanStep

\* Node(name) with its data, as the next node of d
NewNode(d, name, data) ==
    [parent |-> Append(d.parent, None), children |-> Append(d.children, <<>>),
     err |-> d.err, name |-> Append(d.name, name), data |-> Append(d.data, data)]

\* the for loop of node: res.append(text(t)) for every t of content
RECURSIVE AppendTexts(_, _, _)
AppendTexts(d, res, content) ==
    IF content = <<>> THEN d
    ELSE LET withText == NewNode(d, "#text", Head(content))
         IN  AppendTexts(NodeAppend(withText, res, Len(withText.parent)),
                         res, Tail(content))

\* node(name, content): the new node is node Len(d.parent) + 1
MakeNode(d, name, content) ==
    AppendTexts(NewNode(d, name, <<>>), Len(d.parent) + 1, content)

\* while stack and stack[-1][0].indentation >= block.indentation: stack.pop()
RECURSIVE PopWhile(_, _)
PopWhile(stack, indent) ==
    IF stack # <<>> /\ stack[Len(stack)].indentation >= indent
    THEN PopWhile(SubSeq(stack, 1, Len(stack) - 1), indent)
    ELSE stack

\* the for loop of tree over the blocks bs, the root being node 1
RECURSIVE TreeFrom(_, _, _)
TreeFrom(d, stack, bs) ==
    IF bs = <<>> THEN d
    ELSE LET b == Head(bs)
             block_node == Len(d.parent) + 1
             made == MakeNode(d, IF b.name = "" THEN "paragraph" ELSE b.name, b.content)
             popped == PopWhile(stack, b.indentation)
             added == IF popped = <<>>
                      THEN NodeAppend(made, 1, block_node)
                      ELSE NodeAppend(made, popped[Len(popped)].node, block_node)
         IN  TreeFrom(added,
                      Append(popped, [indentation |-> b.indentation, node |-> block_node]),
                      Tail(bs))

\* tree(blocks)
TreeOf(bs) == TreeFrom(MakeNode(doc, "document", <<>>), <<>>, bs)

\* the scan is over and structure has returned: parse folds the blocks
NdTree ==
    /\ ~ndDone
    /\ fragment = NoFragment
    /\ consumed = Len(out)
    /\ doc' = TreeOf(blocks)
    /\ ndDone' = TRUE
    /\ UNCHANGED <<offset, block, blocks, consumed>>
    /\ UNCHANGED <<treeVars, scanVars, blockVars, queryVars, inlineVars, ruleVars, lineVars, storeVars, copyVars, axisVars, orderVars, selVars, writerVars, indentVars>>

\* nd.parse(text) up to the first window of the scan
InitNd ==
    /\ text \in NdTexts
    /\ patterns = STRUCTURE
    /\ lookahead = DefaultLookahead
    /\ fragment = [start |-> 0, end |-> lookahead]
    /\ out = <<>>
    /\ windows = 0
    /\ IdleNd
    /\ IdleInline
    /\ IdleRules
    /\ IdleLines
    /\ IdleStore
    /\ IdleCopy
    /\ IdleAxis
    /\ IdleOrder
    /\ IdleSelections
    /\ IdleWriters
    /\ IdleIndent
    /\ IdleTree
    /\ IdleBlocks
    /\ IdleQuery

NextNd == NdScan \/ StructureStep \/ NdTree

SpecNd == InitNd /\ [][NextNd]_vars

\* the contents of the text nodes under n, in document order
RECURSIVE TextUnder(_, _)
TextUnder(n, fuel) ==
    IF fuel = 0 THEN <<>>
    ELSE LET own == IF doc.name[n] = "#text" THEN doc.data[n] ELSE <<>>
             RECURSIVE Over(_)
             Over(cs) == IF cs = <<>> THEN <<>>
                         ELSE TextUnder(Head(cs), fuel - 1) \o Over(Tail(cs))
         IN  own \o Over(doc.children[n])

DocText == TextUnder(1, Len(doc.parent))

\* the offsets of text that a yielded match covers outside its content group
DelimiterOffsets ==
    {i \in 0..(Len(text) - 1) :
        \E k \in 1..Len(out) :
            /\ out[k].start <= i /\ i < out[k].end
            /\ ~(out[k].cs <= i /\ i < out[k].ce)}

\* text without the characters at the offsets of S
RECURSIVE Without(_, _, _)
Without(src, i, S) ==
    IF i > Len(src) THEN <<>>
    ELSE (IF (i - 1) \in S THEN <<>> ELSE <<src[i]>>) \o Without(src, i + 1, S)

\* C3: the text contents of the tree nd.parse builds, concatenated in
\* document order, are the input without the characters of the matched
\* delimiters: nothing else is dropped or duplicated.
C3_ContentPreserved == ndDone => DocText = Without(text, 1, DelimiterOffsets)

----------------------------------------------------------------------------
(* The inline parser: research/ndparser.py, inline and parseInlines *)

\* the characters of the modelled lines
InlineAlphabet == {"*", "_", "#", "a"}
InlineLines == SeqsUpTo(InlineAlphabet, MaxLine)

\* the end argument of inline when it is not given
NoPattern == [kind |-> "none", s |-> <<>>]

\* re.compile(re.escape(s))
Literal(s) == [kind |-> "lit", s |-> s]

\* inline(start, end), registered under name: the end pattern is the start
\* pattern when no end is given
Inline(name, start, end) ==
    [name |-> name, start |-> start, end |-> IF end = NoPattern THEN start ELSE end]

\* Microformats.Tag, Inlines.Strong, Inlines.Emphasis, Inlines.Term
Tag == Inline("Tag", [kind |-> "tag", s |-> <<>>], NoPattern)
Strong == Inline("Strong", Literal(<<"*", "*">>), NoPattern)
Emphasis == Inline("Emphasis", Literal(<<"*">>), NoPattern)
Term == Inline("Term", Literal(<<"_">>), NoPattern)

InlinePool == {Tag, Strong, Emphasis, Term}

\* the mappings given as inlines: a dict has one entry per key
InlineMaps ==
    {m \in SeqsUpTo(InlinePool, MaxInlines) :
        \A i \in 1..Len(m), j \in 1..Len(m) : m[i].name = m[j].name => i = j}

\* pattern.search(line, o): the leftmost match at or after the offset o, in
\* offsets of line
SearchFrom(pat, line, o) == Shifted(Search(pat, Slice(line, o, Len(line))), o)

\* v.end.search(line, m.end()) for the start match m, NoMatch without start
EndAfter(v, line, m) ==
    IF m = NoMatch THEN NoMatch ELSE SearchFrom(v.end, line, m.end)

\* the entry of starts and ends for the pattern v: its start match and its
\* end match, nothing unless the end exists and ends at or before n
Candidate(v, s, e, n) ==
    IF s # NoMatch /\ e # NoMatch /\ e.end <= n
    THEN <<[name |-> v.name, s |-> s, e |-> e]>>
    ELSE <<>>

CandidateOf(v, line, s, n) == Candidate(v, s, EndAfter(v, line, s), n)

\* the for loop over inlines.items(): ends, with starts, in mapping order
RECURSIVE Candidates(_, _, _, _)
Candidates(alive, line, o, n) ==
    IF alive = <<>> THEN <<>>
    ELSE CandidateOf(Head(alive), line, SearchFrom(Head(alive).start, line, o), n)
             \o Candidates(Tail(alive), line, o, n)

\* no pattern is pruned
Unpruned(alive, cands) == alive

\* inlines = {k: v for k, v in inlines.items() if k in ends}
Pruned(alive, cands) ==
    SelectSeq(alive, LAMBDA v : \E i \in 1..Len(cands) : cands[i].name = v.name)

\* the closest start looked for with <= instead of <: the last candidate of
\* smallest start
RECURSIVE ClosestFromTiesLast(_, _, _, _)
ClosestFromTiesLast(cands, k, i, closest) ==
    IF k > Len(cands) THEN closest
    ELSE IF cands[k].s.start <= i
         THEN ClosestFromTiesLast(cands, k + 1, cands[k].s.start, k)
         ELSE ClosestFromTiesLast(cands, k + 1, i, closest)

ClosestTiesLast(cands, n) == ClosestFromTiesLast(cands, 1, n, 0)

\* the loop that looks for the closest start: the position in cands of the
\* first candidate of smallest start below i, 0 when there is none
RECURSIVE ClosestFrom(_, _, _, _)
ClosestFrom(cands, k, i, closest) ==
    IF k > Len(cands) THEN closest
    ELSE IF cands[k].s.start < i
         THEN ClosestFrom(cands, k + 1, cands[k].s.start, k)
         ELSE ClosestFrom(cands, k + 1, i, closest)

Closest(cands, n) == ClosestFrom(cands, 1, n, 0)

\* MatchedText(text) and MatchedInline(name, attrs, children)
MatchedText(t) == [name |-> "#text", attrs |-> <<>>, children |-> <<>>, text |-> t]

MatchedInline(name, attrs, kids) ==
    [name |-> name, attrs |-> attrs, children |-> kids, text |-> <<>>]

\* m.groupdict(): the value of the group of the match, when it has one
GroupDict(line, m) == IF m.cs < 0 THEN <<>> ELSE <<Slice(line, m.cs, m.ce)>>

\* starts[closest].groupdict() | ends[closest].groupdict()
Attrs(line, c) ==
    IF GroupDict(line, c.e) # <<>> THEN GroupDict(line, c.e) ELSE GroupDict(line, c.s)

\* n: int = end or len(line)
EndOr(line, end) == IF end = 0 THEN Len(line) ELSE end

\* the characters from offset a to offset b, yielded as a text or matched as
\* the start or the end of a span
Tile(kind, a, b) == [kind |-> kind, a |-> a, b |-> b]

\* the characters of a yielded line[a:b], none when the slice is not yielded
TextTiles(a, b) == IF a < b THEN <<Tile("text", a, b)>> ELSE <<>>

\* a call of parseInlines: its locals o, n and inlines (alive), what it has
\* yielded, and the MatchedInline its caller builds from it: name, attrs and
\* the offset the caller resumes at.  tiles lists, in the order of the
\* yields, the slices of the line the call has yielded or matched as
\* delimiters, and close is the end match of the span the call is inside of.
Frame(o, n, alive, name, attrs, resume) ==
    [o |-> o, n |-> n, alive |-> alive, out |-> <<>>,
     name |-> name, attrs |-> attrs, resume |-> resume,
     tiles |-> <<>>, close |-> Tile("end", 0, 0)]

\* while inlines and o < n
Looping(f) == f.alive # <<>> /\ f.o < f.n

\* the frames after a round of f that found no closest match
NoClosest(rest, f, alive) ==
    Append(rest, [f EXCEPT !.alive = alive,
                           !.out = Append(@, MatchedText(Slice(iline, f.o, f.n))),
                           !.tiles = Append(@, Tile("text", f.o, f.n)),
                           !.o = f.n + 1])

\* the frames after a round of f that found the closest match c: the text before
\* it is yielded and parseInlines is called on what it encloses
WithClosest(rest, f, alive, c) ==
    rest \o << [f EXCEPT !.alive = alive,
                         !.out = IF f.o < c.s.start
                                 THEN Append(@, MatchedText(Slice(iline, f.o, c.s.start)))
                                 ELSE @,
                         !.tiles = @ \o TextTiles(f.o, c.s.start)
                                     \o <<Tile("start", c.s.start, c.s.end)>>],
               [Frame(c.s.end, EndOr(iline, c.e.start), alive,
                      c.name, Attrs(iline, c), c.e.end)
                   EXCEPT !.close = Tile("end", c.e.start, c.e.end)] >>

RoundOf(rest, f, cands, k) ==
    IF k = 0 THEN NoClosest(rest, f, Pruned(f.alive, cands))
    ELSE WithClosest(rest, f, Pruned(f.alive, cands), cands[k])

RoundWith(rest, f, cands) == RoundOf(rest, f, cands, Closest(cands, f.n))

\* one iteration of the while loop of the innermost call
InlineRound ==
    /\ ~idone
    /\ frames # <<>>
    /\ Looping(frames[Len(frames)])
    /\ frames' = RoundWith(SubSeq(frames, 1, Len(frames) - 1), frames[Len(frames)],
                           Candidates(frames[Len(frames)].alive, iline,
                                      frames[Len(frames)].o, frames[Len(frames)].n))
    /\ UNCHANGED <<iline, inlines, iout, idone>>
    /\ UNCHANGED <<treeVars, scanVars, blockVars, queryVars, ndVars, ruleVars, lineVars, storeVars, copyVars, axisVars, orderVars, selVars, writerVars, indentVars>>

\* the text left when the loop ends is not yielded
YieldedNoFlush(f) == f.out

\* what a call has yielded when it returns: if o < n: yield MatchedText(line[o:n])
Yielded(f) ==
    IF f.o < f.n THEN Append(f.out, MatchedText(Slice(iline, f.o, f.n))) ELSE f.out

\* the slices a call has yielded or matched when it returns
Tiled(f) == f.tiles \o TextTiles(f.o, f.n)

\* the caller f receives list(parseInlines(...)), yields the MatchedInline and
\* sets o = ends[closest].end()
Resumed(f, callee) ==
    [f EXCEPT !.out = Append(@, MatchedInline(callee.name, callee.attrs, Yielded(callee))),
              !.tiles = @ \o Tiled(callee) \o <<callee.close>>,
              !.o = callee.resume]

\* the innermost call leaves its loop and returns
InlineReturn ==
    /\ ~idone
    /\ frames # <<>>
    /\ ~Looping(frames[Len(frames)])
    /\ IF Len(frames) = 1
       THEN /\ iout' = Yielded(frames[1])
            /\ idone' = TRUE
            /\ frames' = <<>>
       ELSE /\ frames' = Append(SubSeq(frames, 1, Len(frames) - 2),
                                Resumed(frames[Len(frames) - 1], frames[Len(frames)]))
            /\ UNCHANGED <<iout, idone>>
    /\ UNCHANGED <<iline, inlines>>
    /\ UNCHANGED <<treeVars, scanVars, blockVars, queryVars, ndVars, ruleVars, lineVars, storeVars, copyVars, axisVars, orderVars, selVars, writerVars, indentVars>>

\* parseInlines(line, inlines) up to its loop
InitInline ==
    /\ iline \in InlineLines
    /\ inlines \in InlineMaps
    /\ frames = <<Frame(0, EndOr(iline, 0), inlines, "", <<>>, 0)>>
    /\ iout = <<>>
    /\ idone = FALSE
    /\ IdleTree
    /\ IdleScan
    /\ IdleBlocks
    /\ IdleQuery
    /\ IdleNd
    /\ IdleRules
    /\ IdleLines
    /\ IdleStore
    /\ IdleCopy
    /\ IdleAxis
    /\ IdleOrder
    /\ IdleSelections
    /\ IdleWriters
    /\ IdleIndent

NextInline == InlineRound \/ InlineReturn

SpecInline == InitInline /\ [][NextInline]_vars

\* the names of the patterns of a mapping
InlineNames(m) == {m[i].name : i \in 1..Len(m)}

\* the position of the pattern called name in the mapping given to parseInlines
InlineIndex(name) == CHOOSE i \in 1..Len(inlines) : inlines[i].name = name

\* the candidates of the round the innermost call is about to run
RoundCandidates ==
    Candidates(frames[Len(frames)].alive, iline,
               frames[Len(frames)].o, frames[Len(frames)].n)

\* the only match of the tag pattern in the line, NoMatch when the line has
\* no tag or more than one
OnlyTag ==
    IF SearchFrom(Tag.start, iline, 0) # NoMatch
       /\ SearchFrom(Tag.start, iline, SearchFrom(Tag.start, iline, 0).end) = NoMatch
    THEN SearchFrom(Tag.start, iline, 0)
    ELSE NoMatch

\* the text of the line from a to b as a list of yielded items, none when empty
TextItems(a, b) == IF a < b THEN <<MatchedText(Slice(iline, a, b))>> ELSE <<>>

\* C13: a tag that occurs exactly once in the line is yielded as one
\* MatchedInline named Tag that carries its captured name, between the text
\* before it and the text after it.
C13_SingleTagSpan ==
    (idone /\ inlines = <<Tag>> /\ OnlyTag # NoMatch)
        => iout = TextItems(0, OnlyTag.start)
                    \o <<MatchedInline("Tag", GroupDict(iline, OnlyTag), <<>>)>>
                    \o TextItems(OnlyTag.end, Len(iline))

\* C17: a pattern that is not a candidate of a round (no start at or after the
\* cursor, no end, or an end beyond n) is removed from the alive set of the
\* scope; no later step puts a pattern back into a scope's alive set, the
\* scope opened by the round starts from the pruned set, and the span of the
\* round is that of a pattern still alive.
C17_PrunedStaysOut ==
    [][/\ \A i \in 1..Len(frames') :
              i <= Len(frames) =>
                  InlineNames(frames'[i].alive) \subseteq InlineNames(frames[i].alive)
       /\ InlineRound =>
              /\ \A i \in 1..Len(frames[Len(frames)].alive) :
                     LET v == frames[Len(frames)].alive[i]
                     IN  (\A k \in 1..Len(RoundCandidates) : RoundCandidates[k].name # v.name)
                             => v.name \notin InlineNames(frames'[Len(frames)].alive)
              /\ Len(frames') > Len(frames) =>
                     /\ frames'[Len(frames')].alive = frames'[Len(frames)].alive
                     /\ frames'[Len(frames')].name
                            \in InlineNames(frames'[Len(frames)].alive)
      ]_vars

\* Emphasis, which has a start but no end in the first round, is pruned while
\* Term yields its span, and the same scope is about to run another round
C17_Witness ==
    /\ iline = <<"_", "a", "_", "*">>
    /\ inlines = <<Emphasis, Term>>
    /\ Len(frames) = 1
    /\ frames[1].o = 3
    /\ frames[1].alive = <<Term>>
    /\ Len(frames[1].out) = 1
    /\ frames[1].out[1].name = "Term"

\* C18: in every round that has candidates a span is emitted, it is that of a
\* candidate of smallest start, and among the candidates of that start it is
\* the one that comes first in the mapping.
C18_ClosestFirstDeclared ==
    [][(InlineRound /\ RoundCandidates # <<>>) =>
          /\ Len(frames') = Len(frames) + 1
          /\ \E k \in 1..Len(RoundCandidates) :
                 LET c == RoundCandidates[k]
                 IN  /\ frames'[Len(frames')].name = c.name
                     /\ frames'[Len(frames')].o = c.s.end
                     /\ \A j \in 1..Len(RoundCandidates) :
                            LET d == RoundCandidates[j]
                            IN  /\ c.s.start <= d.s.start
                                /\ (d.s.start = c.s.start /\ j # k)
                                       => InlineIndex(c.name) < InlineIndex(d.name)
      ]_vars

\* on a line that starts with two asterisks Strong and Emphasis both start at
\* offset 0, and Strong, declared first, is the span of the round
C18_Witness ==
    /\ iline = <<"*", "*", "a", "*", "*">>
    /\ inlines = <<Strong, Emphasis>>
    /\ Len(frames) = 2
    /\ frames[2].name = "Strong"
    /\ frames[2].o = 2
    /\ frames[2].out = <<>>

\* the texts of the MatchedText of the items and of their children at every
\* depth, in order
RECURSIVE FlatTexts(_)
FlatTexts(items) ==
    IF items = <<>> THEN <<>>
    ELSE (IF Head(items).name = "#text" THEN <<Head(items).text>>
          ELSE FlatTexts(Head(items).children))
             \o FlatTexts(Tail(items))

\* the slices of the line that the text tiles of ts stand for, in order
RECURSIVE TileTexts(_)
TileTexts(ts) ==
    IF ts = <<>> THEN <<>>
    ELSE (IF Head(ts).kind = "text" THEN <<Slice(iline, Head(ts).a, Head(ts).b)>>
          ELSE <<>>)
             \o TileTexts(Tail(ts))

\* the tiles ts cover the characters from a to n, each once and in order
Tiling(ts, a, n) ==
    IF ts = <<>> THEN a >= n
    ELSE /\ ts[1].a = a
         /\ ts[Len(ts)].b = n
         /\ \A i \in 1..Len(ts) : ts[i].a < ts[i].b
         /\ \A i \in 1..(Len(ts) - 1) : ts[i].b = ts[i + 1].a

----------------------------------------------------------------------------
(* The rules: research/tree-patterns.py, MatchContext, Selection, Replace,  *)
(* Remove                                                                   *)

RNodes == 1..RuleNodes

\* Selection.id: Selection.IDS + 1 at each construction
SelIds == 1..2

\* a missing value (None, or a key that a dict does not hold) is the empty
\* tuple, a list l is <<l>>
Nothing == <<>>
Some(l) == <<l>>

\* "x or ()"
OrEmpty(x) == IF x = Nothing THEN <<>> ELSE x[1]

\* MatchContext(parent)
MatchContext(p) == [parent |-> p, entries |-> [id \in SelIds |-> Nothing]]

\* MatchContext.set that stores the nodes in the root of the chain
RECURSIVE ContextSetRoot(_, _, _, _)
ContextSetRoot(ctxs, c, id, nodes) ==
    IF ctxs[c].parent # 0 THEN ContextSetRoot(ctxs, ctxs[c].parent, id, nodes)
    ELSE [ctxs EXCEPT ![c].entries[id] = Some(nodes)]

\* MatchContext.set: self.entries[id] = nodes
ContextSet(ctxs, c, id, nodes) == [ctxs EXCEPT ![c].entries[id] = Some(nodes)]

\* MatchContext.get: the entry of self, else that of the parent chain
RECURSIVE ContextGet(_, _, _)
ContextGet(ctxs, c, id) ==
    IF ctxs[c].entries[id] # Nothing THEN ctxs[c].entries[id]
    ELSE IF ctxs[c].parent # 0 THEN ContextGet(ctxs, ctxs[c].parent, id)
    ELSE Nothing

\* MatchContext.derive
ContextDerive(ctxs, c) == Append(ctxs, MatchContext(c))

\* the objects the rules work on: the Node tree, the names, the number of
\* nodes created, whether a node was asked for beyond RuleNodes, the contexts
\* Node.__init__: attributes if attributes else {}
NoAttributes == <<>>

\* type(self.attributes)((k, v) for k, v in self.attributes.items())
DictCopy(d) == d

\* log lists the steps Selection.apply has run
World(t, name, used, ctxs) ==
    [t |-> t, name |-> name, used |-> used, over |-> FALSE, ctxs |-> ctxs,
     attrs |-> [n \in RNodes |-> NoAttributes], log |-> <<>>]

\* a step of Selection.apply: a group bound ("group", by the selection s in
\* the context c), a transform applied ("transform", x in the context c whose
\* entries are given) or a child selection applied ("child", the selection s
\* on the node x, under the context c of its parent)
Event(kind, s, c, nodes, x, entries) ==
    [kind |-> kind, s |-> s, c |-> c, nodes |-> nodes, x |-> x, entries |-> entries]

Logged(w, ev) == [w EXCEPT !.log = Append(@, ev)]

Stopped(w) == w.t.err \/ w.over

\* an exception leaves the called function
Raise(w) == [w EXCEPT !.t = Fail(@)]

\* Node.descendants, a generator over the live children lists: the stack of
\* list iterators, the innermost last; the next node it yields (None at the
\* end) and the stack after it
RECURSIVE DescendantsNext(_, _)
DescendantsNext(t, st) ==
    IF st = <<>> THEN [st |-> <<>>, node |-> None]
    ELSE IF st[Len(st)].i < Len(t.children[st[Len(st)].n])
         THEN [st |-> Append([st EXCEPT ![Len(st)].i = @ + 1],
                             [n |-> t.children[st[Len(st)].n][st[Len(st)].i + 1],
                              i |-> 0]),
               node |-> t.children[st[Len(st)].n][st[Len(st)].i + 1]]
         ELSE DescendantsNext(t, SubSeq(st, 1, Len(st) - 1))

\* Query.match on the names of the world
WorldMatch(w, q, n) == q = "*" \/ BaseName(w.name[n]) = q

\* matchIter, descendants axis: if previous and child.parent != previous
GroupAfter(w, itr, child) ==
    IF itr.previous # None /\ w.t.parent[child] # itr.previous
    THEN itr.group + 1 ELSE itr.group

\* matchIter resumed: the next (group, node) it yields, node None at the end
RECURSIVE MatchIterNext(_, _, _)
MatchIterFrom(w, q, itr, d) ==
    IF d.node = None THEN [itr |-> [itr EXCEPT !.st = <<>>], g |-> 0, node |-> None]
    ELSE IF WorldMatch(w, q, d.node)
         THEN [itr |-> [st |-> d.st, group |-> GroupAfter(w, itr, d.node),
                        previous |-> d.node],
               g |-> GroupAfter(w, itr, d.node), node |-> d.node]
         ELSE MatchIterNext(w, q, [itr EXCEPT !.st = d.st])

MatchIterNext(w, q, itr) == MatchIterFrom(w, q, itr, DescendantsNext(w.t, itr.st))

\* matchGroups started on node
MatchGroups(node) ==
    [itr |-> [st |-> <<[n |-> node, i |-> 0]>>, group |-> 0, previous |-> None],
     group |-> 0, res |-> <<>>, done |-> FALSE]

\* matchGroups resumed: the next list it yields (Nothing at the end) and the
\* generator after it; the node that closed the list opens the next one
RECURSIVE MatchGroupsNext(_, _, _)
MatchGroupsFrom(w, q, gen, r) ==
    IF r.node = None
    THEN [gen |-> [gen EXCEPT !.done = TRUE, !.res = <<>>],
          res |-> IF gen.res # <<>> THEN Some(gen.res) ELSE Nothing]
    ELSE IF r.g # gen.group /\ gen.res # <<>>
         THEN [gen |-> [itr |-> r.itr, group |-> r.g, res |-> <<r.node>>,
                        done |-> FALSE],
               res |-> Some(gen.res)]
         ELSE MatchGroupsNext(w, q, [itr |-> r.itr, group |-> r.g,
                                     res |-> Append(gen.res, r.node),
                                     done |-> FALSE])

MatchGroupsNext(w, q, gen) ==
    IF gen.done THEN [gen |-> gen, res |-> Nothing]
    ELSE MatchGroupsFrom(w, q, gen, MatchIterNext(w, q, gen.itr))

\* Node(self.name): the next unused Node object
Created(w, name) ==
    [w EXCEPT !.used = @ + 1, !.name[w.used + 1] = name,
              !.attrs[w.used + 1] = NoAttributes]

\* Node.copy: the copy of n and the world that holds it
RECURSIVE NodeCopy(_, _)
RECURSIVE CopyChildren(_, _, _)
CopyChild(cw, node, rest) ==
    IF cw.w.over THEN [w |-> cw.w, node |-> node]
    ELSE CopyChildren([cw.w EXCEPT !.t = NodeAppend(@, node, cw.node)], node, rest)

CopyChildren(w, node, kids) ==
    IF kids = <<>> THEN [w |-> w, node |-> node]
    ELSE CopyChild(NodeCopy(w, Head(kids)), node, Tail(kids))

NodeCopy(w, n) ==
    IF w.used >= RuleNodes THEN [w |-> [w EXCEPT !.over = TRUE], node |-> n]
    ELSE CopyChildren([Created(w, w.name[n]) EXCEPT !.attrs[n] = DictCopy(@)],
                      w.used + 1, w.t.children[n])

\* a.replaceWith(b.copy()), given the copy
ReplacedWith(cw, a) ==
    IF cw.w.over THEN cw.w
    ELSE [cw.w EXCEPT !.t = NodeReplaceWith(@, a, <<cw.node>>)]

\* for b in lb: if a.parent: a.replaceWith(b.copy())
RECURSIVE ReplaceByEach(_, _, _)
ReplaceByEach(w, a, lb) ==
    IF lb = <<>> \/ Stopped(w) THEN w
    ELSE ReplaceByEach(IF w.t.parent[a] # None
                       THEN ReplacedWith(NodeCopy(w, Head(lb)), a)
                       ELSE w,
                       a, Tail(lb))

\* for a in la: toSExpr(a.parent) raises AttributeError when a has no parent
RECURSIVE ReplaceEach(_, _, _)
ReplaceEach(w, la, lb) ==
    IF la = <<>> \/ Stopped(w) THEN w
    ELSE IF w.t.parent[Head(la)] = None THEN Raise(w)
    ELSE ReplaceEach(ReplaceByEach(w, Head(la), lb), Tail(la), lb)

\* Replace(original, new).apply(context)
ReplaceApply(w, c, original, new) ==
    ReplaceEach(w, OrEmpty(ContextGet(w.ctxs, c, original)),
                   OrEmpty(ContextGet(w.ctxs, c, new)))

\* Remove(selection).apply(context): prints the context
RemoveApply(w, c, selection) == w

Replace(original, new) == [kind |-> "replace", a |-> original, b |-> new]
Remove(selection) == [kind |-> "remove", a |-> selection, b |-> 0]

\* transform.apply(ctx)
TransformApply(w, tr, c) ==
    IF tr.kind = "replace" THEN ReplaceApply(w, c, tr.a, tr.b)
    ELSE RemoveApply(w, c, tr.a)

\* for transform in self.transforms
RECURSIVE TransformsApply(_, _, _)
TransformsApply(w, trs, c) ==
    IF trs = <<>> \/ Stopped(w) THEN w
    ELSE TransformsApply(
             TransformApply(Logged(w, Event("transform", 0, c, <<>>, Head(trs),
                                            w.ctxs[c].entries)),
                            Head(trs), c),
             Tail(trs), c)

\* Selection(query) with its child selections and transforms
Selection(q, selections, transforms) ==
    [query |-> q, selections |-> selections, transforms |-> transforms]

\* Selection.apply(node, context) for the selection s of the rule; the loop
\* over matchGroups, the loop over the child selections and the loop over
\* the nodes of a group
RECURSIVE SelectionLoop(_, _, _, _, _)
RECURSIVE SelectionsLoop(_, _, _, _, _)
RECURSIVE NodesLoop(_, _, _, _, _)

SelectionApply(w, rule, s, node, c) == SelectionLoop(w, rule, s, c, MatchGroups(node))

NodesLoop(w, rule, s, derived, nodes) ==
    IF nodes = <<>> \/ Stopped(w) THEN w
    ELSE NodesLoop(SelectionApply(
                       Logged(w, Event("child", s, w.ctxs[derived].parent, <<>>,
                                       Head(nodes), w.ctxs[derived].entries)),
                       rule, s, Head(nodes), derived),
                   rule, s, derived, Tail(nodes))

SelectionsLoop(w, rule, ss, c, nodes) ==
    IF ss = <<>> \/ Stopped(w) THEN w
    ELSE SelectionsLoop(NodesLoop([w EXCEPT !.ctxs = ContextDerive(@, c)],
                                  rule, Head(ss), Len(w.ctxs) + 1, nodes),
                        rule, Tail(ss), c, nodes)

\* the child selections are applied before the transforms are run
GroupBodyChildrenFirst(w, rule, s, c, nodes) ==
    TransformsApply(SelectionsLoop(Logged([w EXCEPT !.ctxs = ContextSet(@, c, s, nodes)],
                                          Event("group", s, c, nodes, 0,
                                                ContextSet(w.ctxs, c, s, nodes)[c].entries)),
                                   rule, rule[s].selections, c, nodes),
                    rule[s].transforms, c)

GroupBody(w, rule, s, c, nodes) ==
    SelectionsLoop(TransformsApply(Logged([w EXCEPT !.ctxs = ContextSet(@, c, s, nodes)],
                                          Event("group", s, c, nodes, 0,
                                                ContextSet(w.ctxs, c, s, nodes)[c].entries)),
                                   rule[s].transforms, c),
                   rule, rule[s].selections, c, nodes)

SelectionStep(w, rule, s, c, r) ==
    IF r.res = Nothing THEN w
    ELSE SelectionLoop(GroupBody(w, rule, s, c, r.res[1]), rule, s, c, r.gen)

SelectionLoop(w, rule, s, c, gen) ==
    IF Stopped(w) THEN w
    ELSE SelectionStep(w, rule, s, c, MatchGroupsNext(w, rule[s].query, gen))

\* the rule of the module, "paragraph" nodes replaced by copies of the
\* "list-item" nodes found below them, and three more of the same size.  When
\* the with block of the inner selection ends, __exit__ adds the outer
\* selection, which has no parent, to the inner one: selection 1 is a child
\* selection of selection 2
ListItems ==
    [id \in SelIds |->
        IF id = 1 THEN Selection("paragraph", <<2>>, <<>>)
        ELSE Selection("list-item", <<1>>, <<Replace(1, 2)>>)]

Duplicated ==
    [id \in SelIds |->
        IF id = 1 THEN Selection("paragraph", <<>>, <<Replace(1, 1)>>)
        ELSE Selection("list-item", <<>>, <<>>)]

Lifted ==
    [id \in SelIds |->
        IF id = 1 THEN Selection("*", <<2>>, <<>>)
        ELSE Selection("list-item", <<>>, <<Replace(2, 1)>>)]

Removed ==
    [id \in SelIds |->
        IF id = 1 THEN Selection("list-item", <<>>, <<Remove(1)>>)
        ELSE Selection("paragraph", <<>>, <<>>)]

RulePool == <<ListItems, Duplicated, Lifted, Removed>>

\* the lists of at most MaxBound distinct nodes of the document below its root
RECURSIVE DistinctLists(_, _)
DistinctLists(S, k) ==
    IF k = 0 THEN {<<>>}
    ELSE DistinctLists(S, k - 1)
             \cup {Append(l, n) : l \in {x \in DistinctLists(S, k - 1) : Len(x) = k - 1},
                                  n \in S}

BoundLists ==
    {l \in DistinctLists(2..InitRuleNodes, MaxBound) :
        \A i, j \in 1..Len(l) : i # j => l[i] # l[j]}

\* the sorted sequence of a set of nodes
RECURSIVE SortedNodes(_)
SortedNodes(S) ==
    IF S = {} THEN <<>>
    ELSE <<CHOOSE x \in S : \A y \in S : x <= y>>
             \o SortedNodes(S \ {CHOOSE x \in S : \A y \in S : x <= y})

\* what a call leaves behind: the tree, the names and the contexts that are
\* still referenced (the first n), and the call as the last operation, with
\* the name and first argument of the call before it
Returned(w, n, name, a, b) ==
    /\ ~w.over
    /\ rtree' = w.t
    /\ rname' = w.name
    /\ rused' = w.used
    /\ rctxs' = SubSeq(w.ctxs, 1, n)
    /\ rop' = [name |-> name, a |-> a, b |-> b, before |-> rop.name, beforeA |-> rop.a]
    /\ rcount' = rcount + 1
    /\ UNCHANGED <<treeVars, scanVars, blockVars, queryVars, ndVars, inlineVars, lineVars, storeVars, copyVars, axisVars, orderVars, selVars, writerVars, indentVars>>

\* the world a call starts in
Before(ctxs) == World([rtree EXCEPT !.err = FALSE], rname, rused, ctxs)

\* Replace(original, new).apply(context) on the context of the caller
ReplaceCall(original, new) ==
    /\ rcount < MaxApply
    /\ Returned(ReplaceApply(Before(rctxs), 1, original, new), Len(rctxs),
                "replace", original, new)

RulesReplace == \E original \in SelIds, new \in SelIds : ReplaceCall(original, new)

\* Remove(selection).apply(context) on the context of the caller
RemoveCall(selection) ==
    /\ rcount < MaxApply
    /\ Returned(RemoveApply(Before(rctxs), 1, selection), Len(rctxs),
                "remove", selection, 0)

RulesRemove == \E selection \in SelIds : RemoveCall(selection)

\* RulePool[r][1].apply(document, context) with the context of the caller
ApplyCall(r) ==
    /\ rcount < MaxApply
    /\ Returned(SelectionApply(Before(rctxs), RulePool[r], 1, 1, 1), Len(rctxs),
                "apply", r, 1)

\* RulePool[r][1].apply(document): ctx = MatchContext()
ApplyAloneCall(r) ==
    /\ rcount < MaxApply
    /\ Returned(SelectionApply(Before(Append(rctxs, MatchContext(0))),
                               RulePool[r], 1, 1, Len(rctxs) + 1),
                Len(rctxs), "apply", r, 0)

RulesApply == \E r \in 1..Len(RulePool) : ApplyCall(r)

RulesApplyAlone == \E r \in 1..Len(RulePool) : ApplyAloneCall(r)

\* a document of InitRuleNodes nodes below the root 1, built by appending the
\* nodes in the order of their ids, and the context of the caller with the
\* lists it was given
InitRules ==
    /\ \E f \in [1..InitRuleNodes -> 0..InitRuleNodes] :
           /\ f[1] = None
           /\ \A c \in 2..InitRuleNodes : f[c] # None /\ f[c] < c
           /\ rtree = [parent |-> [n \in RNodes |-> IF n <= InitRuleNodes THEN f[n] ELSE None],
                       children |-> [n \in RNodes |->
                                        SortedNodes({c \in 2..InitRuleNodes : f[c] = n})],
                       err |-> FALSE]
    /\ \E names \in [2..InitRuleNodes -> {"paragraph", "list-item"}] :
           rname = [n \in RNodes |-> IF n = 1 THEN "document"
                                     ELSE IF n <= InitRuleNodes THEN names[n] ELSE ""]
    /\ rused = InitRuleNodes
    /\ \E entries \in [SelIds -> {Nothing} \cup {Some(l) : l \in BoundLists}] :
           rctxs = <<[parent |-> 0, entries |-> entries]>>
    /\ rop = [name |-> "init", a |-> 0, b |-> 0, before |-> "", beforeA |-> 0]
    /\ rcount = 0
    /\ IdleTree
    /\ IdleScan
    /\ IdleBlocks
    /\ IdleQuery
    /\ IdleNd
    /\ IdleInline
    /\ IdleLines
    /\ IdleStore
    /\ IdleCopy
    /\ IdleAxis
    /\ IdleOrder
    /\ IdleSelections
    /\ IdleWriters
    /\ IdleIndent

NextRules == RulesReplace \/ RulesRemove \/ RulesApply \/ RulesApplyAlone

SpecRules == InitRules /\ [][NextRules]_vars

\* the nodes reached from n by following parent at most k times in t
RECURSIVE RuleAncestors(_, _, _)
RuleAncestors(t, n, k) ==
    IF k = 0 \/ t.parent[n] = None THEN {}
    ELSE {t.parent[n]} \cup RuleAncestors(t, t.parent[n], k - 1)

\* the Node invariants on the document of the rules: no node is its own
\* ancestor, a node with a parent is listed exactly once by that parent, and
\* by no other node
RuleTreeSound(t) ==
    /\ \A n \in RNodes : n \notin RuleAncestors(t, n, RuleNodes)
    /\ \A n \in RNodes : t.parent[n] # None => Count(t.children[t.parent[n]], n) = 1
    /\ \A m \in RNodes : \A i \in 1..Len(t.children[m]) : t.parent[t.children[m][i]] = m

\* the lists bound to the selections of the last Replace, Remove
BoundTo(id) == OrEmpty(ContextGet(rctxs, 1, id))

\* the children of a parent with every child in la replaced by one slot for
\* each node of lb: a kept child is itself, a slot for a copy of b is -b
RECURSIVE ReplacedSlots(_, _, _)
ReplacedSlots(kids, la, lb) ==
    IF kids = <<>> THEN <<>>
    ELSE (IF IndexOf(la, Head(kids)) # 0
          THEN [j \in 1..Len(lb) |-> 0 - lb[j]]
          ELSE <<Head(kids)>>) \o ReplacedSlots(Tail(kids), la, lb)

\* kids holds, slot by slot, the kept children and fresh copies, each a node
\* created by the step, named like the node it copies and listed once
FilledSlots(kids, slots) ==
    /\ Len(kids) = Len(slots)
    /\ \A k \in 1..Len(slots) :
           IF slots[k] > 0 THEN kids[k] = slots[k]
           ELSE /\ kids[k] > rused
                /\ kids[k] <= rused'
                /\ rname'[kids[k]] = rname[0 - slots[k]]
                /\ Count(kids, kids[k]) = 1

\* C14: Replace(original, new).apply(context) detaches every node a bound to
\* original that has a parent, and the place a held in the children of that
\* parent holds one fresh copy of each node bound to new, in binding order,
\* the other children keeping their order.
C14_ReplacedByCopies ==
    [][\A original \in SelIds, new \in SelIds :
          ReplaceCall(original, new) =>
              \A i \in 1..Len(BoundTo(original)) :
                  LET a == BoundTo(original)[i]
                  IN  rtree.parent[a] # None =>
                          /\ rtree'.parent[a] = None
                          /\ IndexOf(rtree'.children[rtree.parent[a]], a) = 0
                          /\ FilledSlots(rtree'.children[rtree.parent[a]],
                                         ReplacedSlots(rtree.children[rtree.parent[a]],
                                                       BoundTo(original), BoundTo(new)))
      ]_vars

\* C15: a Selection rule tree that carries a Replace, applied to a document
\* once or twice in sequence, leaves the Node invariants in place, also when
\* the nodes bound to new are below the nodes bound to original and the
\* tree changes while the query is being walked.
C15_RulesKeepInvariants == rop.name = "apply" => RuleTreeSound(rtree)

\* ListItems applied twice in a row, a paragraph replaced by the copy of a
\* list item found below it
C15_Witness ==
    /\ rop.name = "apply"
    /\ rop.a = 1
    /\ rop.before = "apply"
    /\ rop.beforeA = 1
    /\ rcount = 2
    /\ rused > InitRuleNodes
    /\ \E n \in RNodes : n > InitRuleNodes /\ rname[n] = "list-item" /\ rtree.parent[n] = 1

\* C16: after Remove(selection).apply(context) every node bound to selection
\* has no parent and is in no children list.
C16_RemoveDetaches ==
    rop.name = "remove" =>
        \A i \in 1..Len(BoundTo(rop.a)) :
            /\ rtree.parent[BoundTo(rop.a)[i]] = None
            /\ \A m \in RNodes : IndexOf(rtree.children[m], BoundTo(rop.a)[i]) = 0

\* C20: Selection.apply(node, parentContext) leaves the entries of
\* parentContext as they were before the call.
C20_ParentContextUntouched ==
    [][\A r \in 1..Len(RulePool) :
          ApplyCall(r) => rctxs'[1].entries = rctxs[1].entries]_vars

----------------------------------------------------------------------------
(* Selection.apply on its own, step by step: research/tree-patterns.py *)

\* a rule whose first selection carries two transforms and a child selection
Both ==
    [id \in SelIds |->
        IF id = 1 THEN Selection("paragraph", <<2>>, <<Remove(1), Replace(1, 2)>>)
        ELSE Selection("list-item", <<>>, <<Remove(2)>>)]

OrderRules == <<ListItems, Duplicated, Lifted, Both>>

\* what the call leaves behind, with the steps it ran
ReturnedSteps(w, r) ==
    /\ ~w.over
    /\ rtree' = w.t
    /\ rname' = w.name
    /\ rused' = w.used
    /\ rctxs' = w.ctxs
    /\ rop' = [name |-> "apply", a |-> r, b |-> 1, before |-> rop.name, beforeA |-> rop.a]
    /\ rcount' = rcount + 1
    /\ slog' = w.log
    /\ srule' = r
    /\ UNCHANGED <<treeVars, scanVars, blockVars, queryVars, ndVars, inlineVars, lineVars, storeVars, copyVars, axisVars, selVars, writerVars, indentVars>>

\* OrderRules[r][1].apply(document, context) with the context of the caller
ApplySteps(r) ==
    /\ srule = 0
    /\ ReturnedSteps(SelectionApply(Before(rctxs), OrderRules[r], 1, 1, 1), r)

OrderApply == \E r \in 1..Len(OrderRules) : ApplySteps(r)

\* a document as in InitRules, and the context of the caller, in which the
\* second selection may be bound
InitOrder ==
    /\ \E f \in [1..InitRuleNodes -> 0..InitRuleNodes] :
           /\ f[1] = None
           /\ \A c \in 2..InitRuleNodes : f[c] # None /\ f[c] < c
           /\ rtree = [parent |-> [n \in RNodes |-> IF n <= InitRuleNodes THEN f[n] ELSE None],
                       children |-> [n \in RNodes |->
                                        SortedNodes({c \in 2..InitRuleNodes : f[c] = n})],
                       err |-> FALSE]
    /\ \E names \in [2..InitRuleNodes -> {"paragraph", "list-item"}] :
           rname = [n \in RNodes |-> IF n = 1 THEN "document"
                                     ELSE IF n <= InitRuleNodes THEN names[n] ELSE ""]
    /\ rused = InitRuleNodes
    /\ \E second \in {Nothing} \cup {Some(l) : l \in BoundLists} :
           rctxs = <<[parent |-> 0,
                      entries |-> [id \in SelIds |-> IF id = 2 THEN second ELSE Nothing]]>>
    /\ rop = [name |-> "init", a |-> 0, b |-> 0, before |-> "", beforeA |-> 0]
    /\ rcount = 0
    /\ slog = <<>>
    /\ srule = 0
    /\ IdleSelections
    /\ IdleWriters
    /\ IdleIndent
    /\ IdleTree
    /\ IdleScan
    /\ IdleBlocks
    /\ IdleQuery
    /\ IdleNd
    /\ IdleInline
    /\ IdleLines
    /\ IdleStore
    /\ IdleCopy
    /\ IdleAxis

NextOrder == OrderApply

SpecOrder == InitOrder /\ [][NextOrder]_vars

\* the position in log of the next group bound in the same context as the
\* group at position i, Len(log) + 1 when there is none
NextGroup(log, i) ==
    IF \E j \in (i + 1)..Len(log) : log[j].kind = "group" /\ log[j].c = log[i].c
    THEN CHOOSE j \in (i + 1)..Len(log) :
             /\ log[j].kind = "group" /\ log[j].c = log[i].c
             /\ \A k \in (i + 1)..(j - 1) : ~(log[k].kind = "group" /\ log[k].c = log[i].c)
    ELSE Len(log) + 1

\* the steps run for the group at position i: those of its context, up to
\* the next group of that context
OwnSteps(log, i, j) ==
    SelectSeq(SubSeq(log, i + 1, j - 1), LAMBDA e : e.c = log[i].c)

\* the steps own are those of the group g of the selection sel: its
\* transforms in the order of sel.transforms, each with g.s bound to the
\* nodes of the group, then each child selection in the order of
\* sel.selections, on each node of the group in order
RanInOrder(sel, g, own) ==
    /\ Len(own) = Len(sel.transforms) + Len(sel.selections) * Len(g.nodes)
    /\ \A k \in 1..Len(sel.transforms) :
           /\ own[k].kind = "transform"
           /\ own[k].x = sel.transforms[k]
           /\ own[k].entries[g.s] = Some(g.nodes)
    /\ \A a \in 1..Len(sel.selections), b \in 1..Len(g.nodes) :
           /\ own[Len(sel.transforms) + (a - 1) * Len(g.nodes) + b].kind = "child"
           /\ own[Len(sel.transforms) + (a - 1) * Len(g.nodes) + b].s = sel.selections[a]
           /\ own[Len(sel.transforms) + (a - 1) * Len(g.nodes) + b].x = g.nodes[b]

\* every list matchGroups yields from gen on, in order
RECURSIVE GroupsFrom(_, _, _)
GroupsRest(w, q, r) ==
    IF r.res = Nothing THEN <<>> ELSE <<r.res[1]>> \o GroupsFrom(w, q, r.gen)

GroupsFrom(w, q, gen) == GroupsRest(w, q, MatchGroupsNext(w, q, gen))

\* the node lists of the groups that the selection 1 bound in the context 1
TopGroups(log) ==
    LET tops == SelectSeq(log, LAMBDA e : e.kind = "group" /\ e.c = 1 /\ e.s = 1)
    IN  [k \in 1..Len(tops) |-> tops[k].nodes]

\* C36: in a Selection.apply that returned, the steps run for each group are
\* its transforms, in the order they were attached and with the id of the
\* selection bound to the nodes of the group, then its child selections,
\* each applied to the nodes of the group in order; and when no node was
\* replaced the groups of the selection are those of matchGroups, in order.
C36_TransformsThenChildren ==
    (srule # 0 /\ ~rtree.err)
        => /\ \A i \in 1..Len(slog) :
                  slog[i].kind = "group"
                  => RanInOrder(OrderRules[srule][slog[i].s], slog[i],
                                OwnSteps(slog, i, NextGroup(slog, i)))
           /\ rused = InitRuleNodes
              => TopGroups(slog)
                   = GroupsFrom(World(rtree, rname, rused, rctxs),
                                OrderRules[srule][1].query, MatchGroups(1))

\* the rule with two transforms and a child selection was applied to a
\* document with two adjacent paragraphs: both transforms ran, then the child
\* selection was applied to each paragraph
C36_Witness ==
    /\ srule = 4
    /\ ~rtree.err
    /\ \E i \in 1..Len(slog) :
           /\ slog[i].kind = "group"
           /\ slog[i].s = 1
           /\ Len(slog[i].nodes) = 2
           /\ Len(OwnSteps(slog, i, NextGroup(slog, i))) = 4
    /\ \E i \in 1..Len(slog) : slog[i].kind = "group" /\ slog[i].s = 2

----------------------------------------------------------------------------
(* Selection.add and the with statement: research/tree-patterns.py *)

Selections == 1..MaxSelections

\* the Selection objects: parent and selections of each, and whether the
\* last call raised
Rules(par, sels, raised) == [parent |-> par, selections |-> sels, raised |-> raised]

\* Selection.add(selection): assert not selection.parent; assert not
\* selection in self.selections
SelectionAdd(r, self, selection) ==
    IF r.parent[selection] # None \/ IndexOf(r.selections[self], selection) # 0
    THEN [r EXCEPT !.raised = TRUE]
    ELSE [r EXCEPT !.parent[selection] = self,
                   !.selections[self] = Append(@, selection)]

\* the loop of __exit__ over the locals of the calling frame: if
\* isinstance(v, Selection) and not v.parent: self.add(v)
RECURSIVE ExitLoop(_, _, _)
ExitLoop(r, self, locals) ==
    IF locals = <<>> \/ r.raised THEN r
    ELSE ExitLoop(IF r.parent[Head(locals)] = None
                  THEN SelectionAdd(r, self, Head(locals))
                  ELSE r,
                  self, Tail(locals))

\* the state after a call on the Selection objects
SelectionsBecome(r) ==
    /\ sparent' = r.parent
    /\ sselections' = r.selections
    /\ sraised' = r.raised

SelectionsNow == Rules(sparent, sselections, FALSE)

\* Selection(query): self.id = Selection.IDS = Selection.IDS + 1
SelectionInit(r) ==
    [r EXCEPT !.parent = Append(@, None), !.selections = Append(@, <<>>)]

\* Selection(query), by any caller
SelNew ==
    /\ sids < MaxSelections
    /\ sids' = sids + 1
    /\ SelectionsBecome(SelectionInit(SelectionsNow))
    /\ UNCHANGED sstack
    /\ UNCHANGED <<treeVars, scanVars, blockVars, queryVars, ndVars, inlineVars, ruleVars, lineVars, storeVars, copyVars, axisVars, orderVars, writerVars, indentVars>>

\* select(query), registered: the new Selection is added to Selection.Stack[-1]
\* when the stack is not empty
SelRegistered ==
    /\ sids < MaxSelections
    /\ sids' = sids + 1
    /\ SelectionsBecome(IF sstack = <<>> THEN SelectionInit(SelectionsNow)
                        ELSE SelectionAdd(SelectionInit(SelectionsNow),
                                          sstack[Len(sstack)], sids + 1))
    /\ UNCHANGED sstack
    /\ UNCHANGED <<treeVars, scanVars, blockVars, queryVars, ndVars, inlineVars, ruleVars, lineVars, storeVars, copyVars, axisVars, orderVars, writerVars, indentVars>>

\* self.select(query) and self.next(query): self.add(Selection(...))
SelSelect(self) ==
    /\ sids < MaxSelections
    /\ sids' = sids + 1
    /\ SelectionsBecome(SelectionAdd(SelectionInit(SelectionsNow), self, sids + 1))
    /\ UNCHANGED sstack
    /\ UNCHANGED <<treeVars, scanVars, blockVars, queryVars, ndVars, inlineVars, ruleVars, lineVars, storeVars, copyVars, axisVars, orderVars, writerVars, indentVars>>

\* self.add(selection), by any caller
SelAdd(self, selection) ==
    /\ SelectionsBecome(SelectionAdd(SelectionsNow, self, selection))
    /\ UNCHANGED <<sstack, sids>>
    /\ UNCHANGED <<treeVars, scanVars, blockVars, queryVars, ndVars, inlineVars, ruleVars, lineVars, storeVars, copyVars, axisVars, orderVars, writerVars, indentVars>>

\* with self: __enter__
SelEnter(self) ==
    /\ Len(sstack) < MaxStack
    /\ sstack' = Append(sstack, self)
    /\ sraised' = FALSE
    /\ UNCHANGED <<sparent, sselections, sids>>
    /\ UNCHANGED <<treeVars, scanVars, blockVars, queryVars, ndVars, inlineVars, ruleVars, lineVars, storeVars, copyVars, axisVars, orderVars, writerVars, indentVars>>

\* the end of the with block of the innermost entered Selection: __exit__,
\* the Selection objects among the locals of the calling frame being locals,
\* in the order of the frame; Selection.Stack.pop() is not reached when add
\* raises
SelExit(locals) ==
    /\ sstack # <<>>
    /\ SelectionsBecome(ExitLoop(SelectionsNow, sstack[Len(sstack)], locals))
    /\ sstack' = IF ExitLoop(SelectionsNow, sstack[Len(sstack)], locals).raised
                 THEN sstack ELSE SubSeq(sstack, 1, Len(sstack) - 1)
    /\ UNCHANGED sids
    /\ UNCHANGED <<treeVars, scanVars, blockVars, queryVars, ndVars, inlineVars, ruleVars, lineVars, storeVars, copyVars, axisVars, orderVars, writerVars, indentVars>>

\* the names of a frame that are bound to Selection objects: any of the
\* objects constructed, each once, in any order
FrameLocals ==
    {l \in SeqsUpTo(1..sids, sids) : \A i, j \in 1..Len(l) : i # j => l[i] # l[j]}

InitSelections ==
    /\ sparent = <<>>
    /\ sselections = <<>>
    /\ sstack = <<>>
    /\ sids = 0
    /\ sraised = FALSE
    /\ IdleWriters
    /\ IdleIndent
    /\ IdleTree
    /\ IdleScan
    /\ IdleBlocks
    /\ IdleQuery
    /\ IdleNd
    /\ IdleInline
    /\ IdleRules
    /\ IdleLines
    /\ IdleStore
    /\ IdleCopy
    /\ IdleAxis
    /\ IdleOrder

NextSelections ==
    \/ SelNew
    \/ SelRegistered
    \/ \E self \in 1..sids : SelSelect(self)
    \/ \E self \in 1..sids, selection \in 1..sids : SelAdd(self, selection)
    \/ \E self \in 1..sids : SelEnter(self)
    \/ \E locals \in FrameLocals : SelExit(locals)

SpecSelections == InitSelections /\ [][NextSelections]_vars

\* the Selection objects reached from x by following parent at most fuel times
RECURSIVE SelectionAncestors(_, _)
SelectionAncestors(x, fuel) ==
    IF fuel = 0 \/ sparent[x] = None THEN {}
    ELSE {sparent[x]} \cup SelectionAncestors(sparent[x], fuel - 1)

\* every Selection that has a parent is exactly once in the selections of
\* that parent, and in those of no other Selection
SelectionListsAgree ==
    \A x \in 1..sids, y \in 1..sids :
        Count(sselections[y], x) = (IF sparent[x] = y THEN 1 ELSE 0)

\* C37: the Selection objects form a forest: each is exactly once in the
\* selections of its parent and in no other list, none is its own child and
\* none is its own ancestor.
C37_SelectionsAreForest ==
    /\ SelectionListsAgree
    /\ \A x \in 1..sids : IndexOf(sselections[x], x) = 0
    /\ \A x \in 1..sids : x \notin SelectionAncestors(x, sids)

----------------------------------------------------------------------------
(* MatchContext on its own: set and derive, any caller, any arguments *)

\* the lists a caller binds: no node, or one of the nodes created
ContextLists == {<<>>, <<2>>}

\* context.set(id, nodes)
ContextSetCall(c, id, nodes) ==
    /\ rctxs' = ContextSet(rctxs, c, id, nodes)
    /\ UNCHANGED <<rtree, rname, rused, rop, rcount>>
    /\ UNCHANGED <<treeVars, scanVars, blockVars, queryVars, ndVars, inlineVars, lineVars, storeVars, copyVars, axisVars, orderVars, selVars, writerVars, indentVars>>

ContextsSet ==
    \E c \in 1..Len(rctxs), id \in SelIds, nodes \in ContextLists :
        ContextSetCall(c, id, nodes)

\* context.derive()
ContextsDerive ==
    /\ Len(rctxs) < MaxContexts
    /\ \E c \in 1..Len(rctxs) : rctxs' = ContextDerive(rctxs, c)
    /\ UNCHANGED <<rtree, rname, rused, rop, rcount>>
    /\ UNCHANGED <<treeVars, scanVars, blockVars, queryVars, ndVars, inlineVars, lineVars, storeVars, copyVars, axisVars, orderVars, selVars, writerVars, indentVars>>

\* InitRuleNodes nodes just created, and one MatchContext()
InitContexts ==
    /\ rtree = [parent |-> [n \in RNodes |-> None],
                children |-> [n \in RNodes |-> <<>>],
                err |-> FALSE]
    /\ rname = [n \in RNodes |-> IF n <= InitRuleNodes THEN "paragraph" ELSE ""]
    /\ rused = InitRuleNodes
    /\ rctxs = <<MatchContext(0)>>
    /\ rop = [name |-> "init", a |-> 0, b |-> 0, before |-> "", beforeA |-> 0]
    /\ rcount = 0
    /\ IdleTree
    /\ IdleScan
    /\ IdleBlocks
    /\ IdleQuery
    /\ IdleNd
    /\ IdleInline
    /\ IdleLines
    /\ IdleStore
    /\ IdleCopy
    /\ IdleAxis
    /\ IdleOrder
    /\ IdleSelections
    /\ IdleWriters
    /\ IdleIndent

NextContexts == ContextsSet \/ ContextsDerive

SpecContexts == InitContexts /\ [][NextContexts]_vars

\* the parent chain of a context, the context itself first
RECURSIVE ContextChain(_)
ContextChain(c) == IF c = 0 THEN <<>> ELSE <<c>> \o ContextChain(rctxs[c].parent)

\* the contexts of a chain that have set id, in chain order
Setters(chain, id) == SelectSeq(chain, LAMBDA k : rctxs[k].entries[id] # Nothing)

\* C19: get returns the binding of the nearest context of the parent chain,
\* the context itself first, that has set the id, and none when no context
\* of the chain has; set on a context changes no other context.
C19_NearestBinding ==
    /\ [](\A c \in 1..Len(rctxs), id \in SelIds :
             ContextGet(rctxs, c, id)
                 = IF Setters(ContextChain(c), id) = <<>> THEN Nothing
                   ELSE rctxs[Setters(ContextChain(c), id)[1]].entries[id])
    /\ [][\A c \in 1..Len(rctxs), id \in SelIds, nodes \in ContextLists :
             ContextSetCall(c, id, nodes) =>
                 /\ ContextGet(rctxs', c, id) = Some(nodes)
                 /\ \A k \in 1..Len(rctxs) : k # c => rctxs'[k] = rctxs[k]]_vars

\* a derived context has bound to the empty list an id that its parent has
\* bound to a node, and a context derived from it has bound nothing
C19_Witness ==
    /\ Len(rctxs) = 3
    /\ rctxs[2].parent = 1
    /\ rctxs[3].parent = 2
    /\ rctxs[1].entries[1] = Some(<<2>>)
    /\ rctxs[2].entries[1] = Some(<<>>)
    /\ rctxs[3].entries[1] = Nothing
    /\ rctxs[1].entries[2] = Some(<<2>>)
    /\ rctxs[2].entries[2] = Nothing
    /\ rctxs[3].entries[2] = Nothing

----------------------------------------------------------------------------
(* The line parser: research/ndparser.py, indentation, inlineToNode and     *)
(* parseLines                                                               *)

\* the Node objects parseLines can create: the root, and for each block a
\* wrapper, a node and a text node
LineNodes == 1..(1 + 3 * MaxLines)

\* Lines | Blocks, in the order of the dict, without the entries (Title,
\* Comment, TodoListItem, DefinitionListItem) that need a character no
\* modelled line holds
Nota == <<Meta, Heading, Code, OrderedListItem, Empty, UnorderdedListItem>>

\* Microformats | Inlines, in the order of the dict, without the patterns
\* that need a character no modelled line holds
DefaultInlines == <<Tag, Strong, Emphasis, Term>>

LinesPool ==
    { <<"x", "\n">>,
      <<"_", "x", "_", "\n">>,
      <<"\n">>,
      <<"#", " ", "x", "\n">>,
      <<"-", " ", "x", "\n">>,
      <<" ", " ", "-", " ", "x", "\n">>,
      <<"1", ")", "x", "\n">> }

LinesInputs == SeqsUpTo(LinesPool, MaxLines)

\* parseInlines(line, inlines, start=o, end=n) as the list of what it yields
RECURSIVE InlinesOf(_, _, _, _)
InlinesSpan(line, alive, o, n, c) ==
    (IF o < c.s.start THEN <<MatchedText(Slice(line, o, c.s.start))>> ELSE <<>>)
        \o <<MatchedInline(c.name, Attrs(line, c),
                           InlinesOf(line, alive, c.s.end, EndOr(line, c.e.start)))>>
        \o InlinesOf(line, alive, c.e.end, n)

InlinesPick(line, alive, o, n, cands, k) ==
    IF k = 0 THEN <<MatchedText(Slice(line, o, n))>>
    ELSE InlinesSpan(line, alive, o, n, cands[k])

InlinesRound(line, alive, o, n, cands) ==
    InlinesPick(line, Pruned(alive, cands), o, n, cands, Closest(cands, n))

InlinesOf(line, alive, o, n) ==
    IF alive # <<>> /\ o < n
    THEN InlinesRound(line, alive, o, n, Candidates(alive, line, o, n))
    ELSE IF o < n THEN <<MatchedText(Slice(line, o, n))>> ELSE <<>>

\* parseInlines(line)
ParseInlines(line) == InlinesOf(line, DefaultInlines, 0, EndOr(line, 0))

\* "".join(lines)
RECURSIVE Joined(_)
Joined(lines) == IF lines = <<>> THEN <<>> ELSE Head(lines) \o Joined(Tail(lines))

\* the tabwidth argument of indentation
tabwidth == 4

\* the loop of indentation(text) for a str, from the 1-based position i on
RECURSIVE TextIndentation(_, _, _)
TextIndentation(s, i, count) ==
    IF i > Len(s) THEN count
    ELSE IF s[i] = "\t"
         THEN TextIndentation(s, i + 1, count + (tabwidth - (count % tabwidth)))
    ELSE IF s[i] = " " THEN TextIndentation(s, i + 1, count + 1)
    ELSE count

\* indentation(text) for a str: the width of the leading spaces and tabs
LineIndentation(s) == TextIndentation(s, 1, 0)

\* RE_EMPTY.match(line)
EmptyLine(s) == PrefixMatch(Empty.start, s) >= 0

\* sum(indentation(prefix + line or line) for the lines of head that are not empty
RECURSIVE IndentationSum(_, _)
IndentationSum(head, prefix) ==
    IF head = <<>> THEN 0
    ELSE (IF EmptyLine(Head(head)) THEN 0
          ELSE LineIndentation(AsSpaces(prefix) \o Head(head)))
             + IndentationSum(Tail(head), prefix)

\* ceil(a / b)
CeilDiv(a, b) == (a + b - 1) \div b

\* indentation(b) for a MatchedBlock: head = text.lines[:4]
BlockIndentation(b) ==
    CeilDiv(IndentationSum(SubSeq(b.lines, 1, Min2(4, Len(b.lines))), b.indented),
            Min2(4, Len(b.lines)))

\* block = b.block if isinstance(b.block, Block) else None
IsBlock(b) == b.block.isBlock

\* ind = indentation(b) + (1 if block and block.nested else 0)
Ind(b) == BlockIndentation(b) + (IF IsBlock(b) /\ b.block.nested THEN 1 ELSE 0)

\* b.name.replace("Item", "")
WithoutItem(name) ==
    IF name = "UnorderdedListItem" THEN "UnorderdedList"
    ELSE IF name = "OrderedListItem" THEN "OrderedList"
    ELSE name

\* what parseLines holds: the Node objects, their names, the stack and node
Lines(t, name, used, stack, node) ==
    [t |-> t, name |-> name, used |-> used, stack |-> stack, node |-> node]

\* while stack and stack[-1][0] >= ind: stack.pop()
RECURSIVE Popped(_, _)
Popped(stack, ind) ==
    IF stack # <<>> /\ stack[Len(stack)].ind >= ind
    THEN Popped(SubSeq(stack, 1, Len(stack) - 1), ind)
    ELSE stack

\* stack[-1][1] if stack else None
TopNode(stack) == IF stack # <<>> THEN stack[Len(stack)].node ELSE None

\* if parent and parent.name != parent_name: stack.pop()
PoppedOther(l, name) ==
    IF TopNode(l.stack) # None /\ l.name[TopNode(l.stack)] # name
    THEN [l EXCEPT !.stack = SubSeq(@, 1, Len(@) - 1)]
    ELSE l

\* Node(name) appended to onto, or to the root when onto is None
AppendedNew(l, name, onto) ==
    [l EXCEPT !.used = @ + 1,
              !.name[l.used + 1] = name,
              !.t = NodeAppend(@, IF onto # None THEN onto ELSE 1, l.used + 1)]

\* parent = Node(parent_name); (stack[-1][1] if stack else root).append(parent);
\* stack.append((ind, parent))
Wrapped(l, name, ind) ==
    [AppendedNew(l, name, TopNode(l.stack))
        EXCEPT !.stack = Append(@, [ind |-> ind, node |-> l.used + 1])]

\* the sequential branch: the wrapper, always created
WithWrapper(l, b, ind) ==
    IF IsBlock(b) /\ b.block.sequential
    THEN Wrapped(PoppedOther(l, WithoutItem(b.name)), WithoutItem(b.name), ind)
    ELSE l

\* the node of the block: a new node for a named block, a new Paragraph when
\* there is no node yet, else the node of the block before
WithNode(l, b, under) ==
    IF b.name # "" THEN [AppendedNew(l, b.name, under) EXCEPT !.node = l.used + 1]
    ELSE IF l.node = None
         THEN [AppendedNew(l, "Paragraph", under) EXCEPT !.node = l.used + 1]
         ELSE l

\* for _ in parseInlines(...): node.append(inlineToNode(_)); inlineToNode of
\* a MatchedInline calls Node with three arguments, a TypeError
RECURSIVE WithInlines(_, _)
WithInlines(l, items) ==
    IF items = <<>> \/ l.t.err THEN l
    ELSE IF Head(items).name # "#text" THEN [l EXCEPT !.t = Fail(@)]
    ELSE WithInlines(AppendedNew(l, "#text", l.node), Tail(items))

\* parent as the node step reads it: the wrapper just created, else the top
\* of the stack after the pops
ParentOf(before, after, b) ==
    IF IsBlock(b) /\ b.block.sequential THEN TopNode(after.stack)
    ELSE TopNode(before.stack)

NodeStep(before, after, b) ==
    WithInlines(WithNode(after, b, ParentOf(before, after, b)),
                ParseInlines(Joined(b.lines)))

\* the body of "for b in parseBlocks(input)" for a block that is not Empty
BlockStep(l, b, ind) == NodeStep(l, WithWrapper(l, b, ind), b)

BlockBody(l, b) ==
    IF IsBlock(b) /\ b.block = Empty THEN l
    ELSE BlockStep([l EXCEPT !.stack = Popped(@, Ind(b))], b, Ind(b))

\* what an iteration leaves: an exception ends parseLines
LinesAfter(l) ==
    /\ ltree' = l.t
    /\ lname' = l.name
    /\ lused' = l.used
    /\ lstack' = l.stack
    /\ lnode' = l.node
    /\ ldone' = l.t.err

\* the generator parseBlocks is resumed: it runs until the next line is done
LinesScan ==
    /\ ~ldone
    /\ taken = Len(emitted)
    /\ \/ BlocksLine
       \/ BlocksFinish

\* one iteration of the for loop of parseLines
LinesBlock ==
    /\ ~ldone
    /\ taken < Len(emitted)
    /\ LinesAfter(BlockBody(Lines(ltree, lname, lused, lstack, lnode), emitted[taken + 1]))
    /\ taken' = taken + 1
    /\ UNCHANGED <<treeVars, scanVars, blockVars, queryVars, ndVars, inlineVars, ruleVars, storeVars, copyVars, axisVars, orderVars, selVars, writerVars, indentVars>>

\* return root
LinesReturn ==
    /\ ~ldone
    /\ done
    /\ taken = Len(emitted)
    /\ ldone' = TRUE
    /\ UNCHANGED <<taken, lstack, lnode, ltree, lname, lused>>
    /\ UNCHANGED <<treeVars, scanVars, blockVars, queryVars, ndVars, inlineVars, ruleVars, storeVars, copyVars, axisVars, orderVars, selVars, writerVars, indentVars>>

\* parseLines(input) up to its loop: root = Node("Nota")
InitLines ==
    /\ input \in LinesInputs
    /\ grammar = Nota
    /\ pos = 0
    /\ cur = <<>>
    /\ emitted = <<>>
    /\ done = FALSE
    /\ taken = 0
    /\ lstack = <<>>
    /\ lnode = None
    /\ ltree = [parent |-> [n \in LineNodes |-> None],
                children |-> [n \in LineNodes |-> <<>>],
                err |-> FALSE]
    /\ lname = [n \in LineNodes |-> IF n = 1 THEN "Nota" ELSE ""]
    /\ lused = 1
    /\ ldone = FALSE
    /\ IdleTree
    /\ IdleScan
    /\ IdleQuery
    /\ IdleNd
    /\ IdleInline
    /\ IdleRules
    /\ IdleStore
    /\ IdleCopy
    /\ IdleAxis
    /\ IdleOrder
    /\ IdleSelections
    /\ IdleWriters
    /\ IdleIndent

NextLines == LinesScan \/ LinesBlock \/ LinesReturn

SpecLines == InitLines /\ [][NextLines]_vars

\* the node parseLines created for the block emitted[j]: blocks and their
\* nodes are created in the same order, so the k-th block of a name has the
\* k-th node of that name
BlockNode(j) ==
    CHOOSE n \in 1..lused :
        /\ lname[n] = emitted[j].name
        /\ Cardinality({m \in 1..n : lname[m] = emitted[j].name})
             = Cardinality({i \in 1..j : emitted[i].name = emitted[j].name})

\* b is the sibling after a: same parent, the next place in its children
SiblingAfter(a, b) ==
    /\ ltree.parent[a] # None
    /\ ltree.parent[b] = ltree.parent[a]
    /\ \E i \in 1..(Len(ltree.children[ltree.parent[a]]) - 1) :
           /\ ltree.children[ltree.parent[a]][i] = a
           /\ ltree.children[ltree.parent[a]][i + 1] = b

\* parseLines has returned its root
LinesReturned == ldone /\ ~ltree.err

\* C11: once parseLines has returned, two consecutive sequential blocks of
\* the same kind at the same indentation (two bullet list items) have their
\* nodes, in order, next to each other under one shared wrapper node named
\* by dropping the item suffix.
C11_SharedWrapper ==
    LinesReturned =>
        \A j \in 1..(Len(emitted) - 1) :
            (/\ IsBlock(emitted[j]) /\ emitted[j].block.sequential
             /\ emitted[j + 1].name = emitted[j].name
             /\ Ind(emitted[j + 1]) = Ind(emitted[j]))
            => /\ SiblingAfter(BlockNode(j), BlockNode(j + 1))
               /\ lname[ltree.parent[BlockNode(j)]] = WithoutItem(emitted[j].name)

\* C12: once parseLines has returned, an unnamed text block that follows a
\* heading line and a blank line has a new Paragraph node under the root as
\* the sibling after the Heading node; the children of the paragraph are
\* the inlines of the text block, and the Heading node has the inlines of
\* the heading line only.
C12_ParagraphAfterHeading ==
    LinesReturned =>
        \A j \in 1..(Len(emitted) - 2) :
            (/\ emitted[j].name = "Heading"
             /\ emitted[j + 1].block = Empty
             /\ emitted[j + 2].name = "")
            => \E p \in 2..lused :
                   /\ lname[p] = "Paragraph"
                   /\ ltree.parent[p] = 1
                   /\ SiblingAfter(BlockNode(j), p)
                   /\ Len(ltree.children[p])
                        = Len(ParseInlines(Joined(emitted[j + 2].lines)))
                   /\ Len(ltree.children[BlockNode(j)])
                        = Len(ParseInlines(Joined(emitted[j].lines)))

\* what parseLines attached for the named block emitted[j]: the wrapper of
\* a sequential block, else its node
BlockAttached(j) ==
    IF IsBlock(emitted[j]) /\ emitted[j].block.sequential
    THEN ltree.parent[BlockNode(j)]
    ELSE BlockNode(j)

\* C27: once parseLines has returned, a list item that follows a list item
\* of strictly smaller indentation is attached, with its wrapper, beneath the
\* node of that enclosing list item, not beneath the list wrapper or the
\* root.
C27_DeeperBlockUnderNode ==
    LinesReturned =>
        \A j \in 1..(Len(emitted) - 1) :
            (/\ IsBlock(emitted[j]) /\ emitted[j].block.sequential
             /\ IsBlock(emitted[j + 1]) /\ emitted[j + 1].block.sequential
             /\ Ind(emitted[j + 1]) > Ind(emitted[j]))
            => ltree.parent[BlockAttached(j + 1)] = BlockNode(j)

\* the entries of the stack whose indentation is strictly smaller than ind
StackBelow(stack, ind) == SelectSeq(stack, LAMBDA e : e.ind < ind)

\* the indentations of the stack are strictly increasing from bottom to top
StackIncreasing(stack) ==
    \A i \in 1..(Len(stack) - 1) : stack[i].ind < stack[i + 1].ind

\* C28: an iteration of parseLines on a block that is not Empty pops exactly
\* the stack entries whose indentation is >= that of the block: the entries
\* of strictly smaller indentation stay, below what the iteration pushes; the
\* new node or wrapper is attached to the node left on top of the stack, or
\* to the root when none is left; the indentations of the stack are strictly
\* increasing after the iteration.
C28_PopsOnlyDeeperOrEqual ==
    [][(/\ LinesBlock
        /\ emitted[taken + 1].name # "Empty")
       => /\ Len(lstack') >= Len(StackBelow(lstack, Ind(emitted[taken + 1])))
          /\ SubSeq(lstack', 1, Len(StackBelow(lstack, Ind(emitted[taken + 1]))))
                = StackBelow(lstack, Ind(emitted[taken + 1]))
          /\ \A i \in 1..Len(lstack') :
                 i > Len(StackBelow(lstack, Ind(emitted[taken + 1])))
                     => lstack'[i].node > lused
          /\ StackIncreasing(lstack')
          /\ \A n \in (lused + 1)..lused' :
                 (lname'[n] # "#text" /\ ltree'.parent[n] <= lused)
                     => ltree'.parent[n]
                          = TopNode(<<[ind |-> 0, node |-> 1]>>
                                      \o StackBelow(lstack, Ind(emitted[taken + 1])))
      ]_vars

----------------------------------------------------------------------------
(* indentation on its own: research/ndparser.py, any block *)

\* the lines of the blocks: text at the columns 0, 2 and 4, the last two also
\* written with a tab, and two blank lines
IndentLines ==
    { <<"x", "\n">>,
      <<" ", " ", "x", "\n">>,
      <<"\t", "x", "\n">>,
      <<" ", "\t", "x", "\n">>,
      <<"\n">>,
      <<" ", "\t", "\n">> }

\* ind = indentation(b) + (1 if block and block.nested else 0), as parseLines
\* computes it for the block b
IndentCall ==
    /\ iind = 0 - 1
    /\ iind' = Ind(iblock)
    /\ UNCHANGED iblock
    /\ UNCHANGED <<treeVars, scanVars, blockVars, queryVars, ndVars, inlineVars, ruleVars, lineVars, storeVars, copyVars, axisVars, orderVars, selVars, writerVars>>

\* the lines that start a list item
ItemLines == { <<"-", " ", "x", "\n">>, <<" ", " ", "-", " ", "x", "\n">> }

\* a MatchedBlock as parseBlocks yields it: a text run or a Code block of one
\* to MaxBlockLines lines, or a list item, which holds the one line it
\* started on, with the match of its start
InitIndent ==
    /\ \/ \E entry \in {TextEntry, Code}, lines \in SeqsUpTo(IndentLines, MaxBlockLines) :
              /\ lines # <<>>
              /\ iblock = MatchedBlock(entry.name, entry, lines, 0)
       \/ \E line \in ItemLines :
              iblock = MatchedBlock(UnorderdedListItem.name, UnorderdedListItem,
                                    <<FirstLine(UnorderdedListItem, line)>>,
                                    IndentedLength(UnorderdedListItem.start, line))
    /\ iind = 0 - 1
    /\ IdleTree
    /\ IdleScan
    /\ IdleBlocks
    /\ IdleQuery
    /\ IdleNd
    /\ IdleInline
    /\ IdleRules
    /\ IdleLines
    /\ IdleStore
    /\ IdleCopy
    /\ IdleAxis
    /\ IdleOrder
    /\ IdleSelections
    /\ IdleWriters

NextIndent == IndentCall

SpecIndent == InitIndent /\ [][NextIndent]_vars

\* the first lines of the block that are not blank
HeadLines == SubSeq(iblock.lines, 1, Min2(4, Len(iblock.lines)))

NonBlankHead == SelectSeq(HeadLines, LAMBDA l : ~EmptyLine(l))

\* 1 when the grammar entry of the block is nested
NestedBit == IF IsBlock(iblock) /\ iblock.block.nested THEN 1 ELSE 0

\* C39: a block whose first lines that are not blank all have leading
\* whitespace of the same tab-expanded width k gets the indentation k, plus 1
\* when its grammar entry is nested, whether or not some of its first lines
\* are blank.
C39_IndentationOfEvenBlock ==
    (/\ iind # 0 - 1
     /\ NonBlankHead # <<>>
     /\ \A i \in 1..Len(NonBlankHead) :
            LineIndentation(NonBlankHead[i]) = LineIndentation(NonBlankHead[1]))
        => iind = LineIndentation(NonBlankHead[1]) + NestedBit

\* the same for a block without blank line among its first lines and whose
\* start has no group "indented"
C39_WithoutBlankLines ==
    (/\ iind # 0 - 1
     /\ NonBlankHead = HeadLines
     /\ iblock.indented = 0
     /\ \A i \in 1..Len(NonBlankHead) :
            LineIndentation(NonBlankHead[i]) = LineIndentation(NonBlankHead[1]))
        => iind = LineIndentation(NonBlankHead[1]) + NestedBit

----------------------------------------------------------------------------
(* The note store: nota/operations.py, LocalStore *)

NotePaths == {"p", "q"}

\* the strings given as contents and original: the characters that matter
\* are a letter and the two line-end characters
StoreTexts == SeqsUpTo({"a", "\r", "\n"}, MaxStored)

\* f.read() of a file opened with "rt": every "\r\n" and every other "\r"
\* is read as "\n"
RECURSIVE ReadText(_)
ReadText(bytes) ==
    IF bytes = <<>> THEN <<>>
    ELSE IF Head(bytes) = "\r"
         THEN IF Len(bytes) >= 2 /\ bytes[2] = "\n"
              THEN <<"\n">> \o ReadText(Tail(Tail(bytes)))
              ELSE <<"\n">> \o ReadText(Tail(bytes))
         ELSE <<Head(bytes)>> \o ReadText(Tail(bytes))

\* f.write(contents) of a file opened with "wt" where os.linesep is "\n":
\* the characters are stored as they are
WrittenText(contents) == contents

\* os.path.exists(actual_path)
StoreExists(files, path) == files[path] # Nothing

\* the test of write: "original and os.path.exists(actual_path)", then
\* "f.read() != original"; an empty original is false
WriteConflict(files, path, original) ==
    /\ original # Nothing
    /\ original[1] # <<>>
    /\ StoreExists(files, path)
    /\ ReadText(files[path][1]) # original[1]

\* LocalStore.write(path, contents, original): the files it leaves
StoreWritten(files, path, contents, original) ==
    IF WriteConflict(files, path, original) THEN files
    ELSE [files EXCEPT ![path] = Some(WrittenText(contents))]

\* raise NoteChangedError(path): NoteChangedError.__init__ calls super with
\* a str, which raises TypeError before the exception object exists
StoreOutcome(files, path, original) ==
    IF WriteConflict(files, path, original) THEN "TypeError" ELSE "True"

\* LocalStore.write called by any caller with any arguments
StoreWrite ==
    \E path \in NotePaths, contents \in StoreTexts,
       original \in {Nothing} \cup {Some(o) : o \in StoreTexts} :
        /\ store' = StoreWritten(store, path, contents, original)
        /\ wop' = [name |-> "write", path |-> path, contents |-> contents,
                   original |-> original, before |-> store[path],
                   outcome |-> StoreOutcome(store, path, original)]
        /\ UNCHANGED <<treeVars, scanVars, blockVars, queryVars, ndVars, inlineVars, ruleVars, lineVars, copyVars, axisVars, orderVars, selVars, writerVars, indentVars>>

\* LocalStore(base) over a directory that holds no note
InitStore ==
    /\ store = [path \in NotePaths |-> Nothing]
    /\ wop = [name |-> "init", path |-> "", contents |-> <<>>, original |-> <<>>,
              before |-> <<>>, outcome |-> ""]
    /\ IdleTree
    /\ IdleScan
    /\ IdleBlocks
    /\ IdleQuery
    /\ IdleNd
    /\ IdleInline
    /\ IdleRules
    /\ IdleLines
    /\ IdleCopy
    /\ IdleAxis
    /\ IdleOrder
    /\ IdleSelections
    /\ IdleWriters
    /\ IdleIndent

NextStore == StoreWrite

SpecStore == InitStore /\ [][NextStore]_vars

\* C22: write called with an expected original while the note exists with a
\* stored text that differs from original raises, and leaves the stored text
\* as it was.
C22_ConflictSignalled ==
    (/\ wop.name = "write"
     /\ wop.original # Nothing
     /\ wop.before # Nothing
     /\ ReadText(wop.before[1]) # wop.original[1])
    => /\ wop.outcome # "True"
       /\ store[wop.path] = wop.before

----------------------------------------------------------------------------
(* Two concurrent calls of LocalStore.write on one note: nota/operations.py *)

Writers == {1, 2}

\* the note both writers edit
EditedNote == "p"

\* the test of write, run by the writer w on the file as it is now: the
\* writer goes on to the open for writing, or raises
WriterCheck(w) ==
    /\ wpc[w] = "check"
    /\ wpc' = [wpc EXCEPT ![w] = IF WriteConflict(store, EditedNote, Some(worig))
                                 THEN "raised" ELSE "write"]
    /\ UNCHANGED <<store, wop, wnew, worig>>
    /\ UNCHANGED <<treeVars, scanVars, blockVars, queryVars, ndVars, inlineVars, ruleVars, lineVars, copyVars, axisVars, orderVars, selVars, indentVars>>

\* with open(actual_path, "wt") as f: f.write(contents); return True
WriterWrite(w) ==
    /\ wpc[w] = "write"
    /\ store' = [store EXCEPT ![EditedNote] = Some(WrittenText(wnew[w]))]
    /\ wpc' = [wpc EXCEPT ![w] = "done"]
    /\ UNCHANGED <<wop, wnew, worig>>
    /\ UNCHANGED <<treeVars, scanVars, blockVars, queryVars, ndVars, inlineVars, ruleVars, lineVars, copyVars, axisVars, orderVars, selVars, indentVars>>

\* the note holds some text, both writers have read it, and each is about
\* to call write with what it read as original and with contents of its own
InitWriters ==
    /\ \E t \in StoreTexts :
           /\ store = [path \in NotePaths |-> IF path = EditedNote THEN Some(t) ELSE Nothing]
           /\ worig = ReadText(t)
    /\ wop = [name |-> "init", path |-> "", contents |-> <<>>, original |-> <<>>,
              before |-> <<>>, outcome |-> ""]
    /\ wnew \in {f \in [Writers -> StoreTexts] : f[1] # f[2]}
    /\ wpc = [w \in Writers |-> "check"]
    /\ IdleIndent
    /\ IdleTree
    /\ IdleScan
    /\ IdleBlocks
    /\ IdleQuery
    /\ IdleNd
    /\ IdleInline
    /\ IdleRules
    /\ IdleLines
    /\ IdleCopy
    /\ IdleAxis
    /\ IdleOrder
    /\ IdleSelections

NextWriters == \E w \in Writers : WriterCheck(w) \/ WriterWrite(w)

SpecWriters == InitWriters /\ [][NextWriters]_vars

\* C38: of two writers that read the same text of a note and call write
\* with that text as original and with different contents, at most one
\* returns True, and once both calls are over the other one has raised.
C38_OneWriterSucceeds ==
    /\ ~(wpc[1] = "done" /\ wpc[2] = "done")
    /\ (wpc[1] \in {"done", "raised"} /\ wpc[2] \in {"done", "raised"})
           => (wpc[1] = "raised" \/ wpc[2] = "raised")

----------------------------------------------------------------------------
(* Node.copy on its own: nota/utils/tree.py, any caller, any node *)

\* the dicts given as attributes: empty, or one entry
AttributePool == {NoAttributes, <<<<"k", "v">>>>}

\* the objects a call of copy starts with
CopyWorld == [World([rtree EXCEPT !.err = FALSE], rname, rused, <<>>) EXCEPT !.attrs = cattrs]

\* what n.copy() leaves, given the copy cw.node and the world cw.w that holds it
Copied(cw, n) ==
    /\ ~cw.w.over
    /\ rtree' = cw.w.t
    /\ rname' = cw.w.name
    /\ rused' = cw.w.used
    /\ cattrs' = cw.w.attrs
    /\ cop' = [name |-> "copy", self |-> n, node |-> cw.node, used |-> rused,
               parent |-> rtree.parent, children |-> rtree.children,
               names |-> rname, attrs |-> cattrs]
    /\ UNCHANGED <<rctxs, rop, rcount>>
    /\ UNCHANGED <<treeVars, scanVars, blockVars, queryVars, ndVars, inlineVars, lineVars, storeVars, axisVars, orderVars, selVars, writerVars, indentVars>>

\* n.copy(), for any node n
CopyCall == \E n \in 1..rused : Copied(NodeCopy(CopyWorld, n), n)

\* a tree of InitRuleNodes nodes built by append, each node with its name and
\* its attributes
InitCopy ==
    /\ \E f \in [1..InitRuleNodes -> 0..InitRuleNodes] :
           /\ f[1] = None
           /\ \A c \in 2..InitRuleNodes : f[c] # None /\ f[c] < c
           /\ rtree = [parent |-> [n \in RNodes |-> IF n <= InitRuleNodes THEN f[n] ELSE None],
                       children |-> [n \in RNodes |->
                                        SortedNodes({c \in 2..InitRuleNodes : f[c] = n})],
                       err |-> FALSE]
    /\ \E names \in [2..InitRuleNodes -> {"paragraph", "list-item"}] :
           rname = [n \in RNodes |-> IF n = 1 THEN "document"
                                     ELSE IF n <= InitRuleNodes THEN names[n] ELSE ""]
    /\ rused = InitRuleNodes
    /\ \E attrs \in [1..InitRuleNodes -> AttributePool] :
           cattrs = [n \in RNodes |-> IF n <= InitRuleNodes THEN attrs[n] ELSE NoAttributes]
    /\ rctxs = <<>>
    /\ rop = [name |-> "init", a |-> 0, b |-> 0, before |-> "", beforeA |-> 0]
    /\ rcount = 0
    /\ cop = [name |-> "init", self |-> 0, node |-> 0, used |-> 0,
              parent |-> <<>>, children |-> <<>>, names |-> <<>>, attrs |-> <<>>]
    /\ IdleTree
    /\ IdleScan
    /\ IdleBlocks
    /\ IdleQuery
    /\ IdleNd
    /\ IdleInline
    /\ IdleLines
    /\ IdleStore
    /\ IdleAxis
    /\ IdleOrder
    /\ IdleSelections
    /\ IdleWriters
    /\ IdleIndent

NextCopy == CopyCall

SpecCopy == InitCopy /\ [][NextCopy]_vars

\* the subtree of n as a value: its name, its attributes and its children's
\* subtrees in order
RECURSIVE Shape(_, _, _, _)
RECURSIVE Shapes(_, _, _, _)
Shapes(kids, names, attrs, ns) ==
    IF ns = <<>> THEN <<>>
    ELSE <<Shape(kids, names, attrs, Head(ns))>> \o Shapes(kids, names, attrs, Tail(ns))

Shape(kids, names, attrs, n) ==
    <<names[n], attrs[n], Shapes(kids, names, attrs, kids[n])>>

\* the nodes of the subtree of n
RECURSIVE SubtreeNodes(_, _)
SubtreeNodes(kids, n) ==
    {n} \cup UNION {SubtreeNodes(kids, kids[n][i]) : i \in 1..Len(kids[n])}

\* C24: copy returns a new node without parent whose name, attributes and
\* recursively copied children, in order, equal those of the original; the
\* copy shares no node with the objects that existed, and the name, the
\* attributes, the children and the parent of every such object are as they
\* were before the call.
C24_CopyEqualsOriginal ==
    cop.name = "copy" =>
        /\ cop.node > cop.used
        /\ rtree.parent[cop.node] = None
        /\ Shape(rtree.children, rname, cattrs, cop.node)
             = Shape(cop.children, cop.names, cop.attrs, cop.self)
        /\ SubtreeNodes(rtree.children, cop.node) \cap (1..cop.used) = {}
        /\ \A n \in 1..cop.used :
               /\ rtree.parent[n] = cop.parent[n]
               /\ rtree.children[n] = cop.children[n]
               /\ rname[n] = cop.names[n]
               /\ cattrs[n] = cop.attrs[n]

----------------------------------------------------------------------------
(* Query.matchIter on its own, over every axis: research/tree-patterns.py  *)
(* and the axes of nota/utils/tree.py                                       *)

\* class Axis(Enum): the names in the order of their declaration
AxisNames == <<"NextSiblings", "PreviousSiblings", "Ancestors", "Descendants">>

\* the value each name is declared with
AxisValue(name) ==
    IF name = "NextSiblings" THEN ">"
    ELSE IF name = "PreviousSiblings" THEN ">"
    ELSE IF name = "Ancestors" THEN "\\"
    ELSE "/"

\* Axis.<name>: in an Enum a name declared with the value of an earlier
\* name is an alias of that earlier member
AxisMember(name) ==
    AxisNames[CHOOSE i \in 1..Len(AxisNames) :
                  /\ AxisValue(AxisNames[i]) = AxisValue(name)
                  /\ \A j \in 1..(i - 1) : AxisValue(AxisNames[j]) # AxisValue(name)]

\* axis = self.axis or Axis.Descendants
AxisOr(name) == IF name = "None" THEN AxisMember("Descendants") ELSE AxisMember(name)

\* list(reversed(l))
RECURSIVE Reversed(_)
Reversed(l) == IF l = <<>> THEN <<>> ELSE Append(Reversed(Tail(l)), Head(l))

\* Node.previousSiblings: reversed(children[0:i])
PreviousSiblingsOf(x) ==
    IF parent[x] = None THEN <<>>
    ELSE Reversed(SubSeq(children[parent[x]], 1, IndexOf(children[parent[x]], x) - 1))

\* Node.nextSiblings: children[i:]
NextSiblingsOf(x) ==
    IF parent[x] = None THEN <<>>
    ELSE SubSeq(children[parent[x]], IndexOf(children[parent[x]], x),
                Len(children[parent[x]]))

\* Node.ancestors
RECURSIVE AncestorsOf(_)
AncestorsOf(x) == IF parent[x] = None THEN <<>> ELSE <<parent[x]>> \o AncestorsOf(parent[x])

\* Node.previousSibling and Node.nextSibling
PreviousSibling(x) ==
    IF parent[x] = None \/ IndexOf(children[parent[x]], x) <= 1 THEN None
    ELSE children[parent[x]][IndexOf(children[parent[x]], x) - 1]

NextSibling(x) ==
    IF parent[x] = None \/ IndexOf(children[parent[x]], x) >= Len(children[parent[x]])
    THEN None
    ELSE children[parent[x]][IndexOf(children[parent[x]], x) + 1]

\* the nodes the loop of matchIter goes through: the branches are tried in
\* the order of the code, each by "axis == Axis.<name>"
AxisNodes(member, x) ==
    IF member = AxisMember("Descendants") THEN Descendants(x)
    ELSE IF member = AxisMember("Ancestors") THEN AncestorsOf(x)
    ELSE IF member = AxisMember("NextSiblings") THEN NextSiblingsOf(x)
    ELSE IF member = AxisMember("PreviousSiblings") THEN PreviousSiblingsOf(x)
    ELSE <<>>

\* the group of the match n after the match previous, in each branch
AxisGroup(member, n, previous, group) ==
    IF member = AxisMember("Descendants") THEN GroupOfMatch(n, previous, group)
    ELSE IF member = AxisMember("Ancestors")
         THEN IF IndexOf(children[n], previous) = 0 THEN group + 1 ELSE group
    ELSE IF member = AxisMember("NextSiblings")
         THEN IF previous # None /\ PreviousSibling(n) # previous THEN group + 1 ELSE group
    ELSE IF previous # None /\ NextSibling(n) # previous THEN group + 1 ELSE group

\* what matchIter yields at position j of its axis
AxisYield(member, ns, j) ==
    /\ it' = [pos |-> j, previous |-> ns[j],
              group |-> AxisGroup(member, ns[j], it.previous, it.group)]
    /\ ayield' = Append(ayield, <<AxisGroup(member, ns[j], it.previous, it.group), ns[j]>>)

\* matchIter runs to its next yield
AxisNext ==
    /\ ~adone
    /\ NextMatch(query, AxisNodes(AxisOr(axis), qnode), it.pos) # 0
    /\ AxisYield(AxisOr(axis), AxisNodes(AxisOr(axis), qnode),
                 NextMatch(query, AxisNodes(AxisOr(axis), qnode), it.pos))
    /\ UNCHANGED <<nodeName, query, qnode, mg, groups, qdone, axis, adone>>
    /\ UNCHANGED <<treeVars, scanVars, blockVars, ndVars, inlineVars, ruleVars, lineVars, storeVars, copyVars, orderVars, selVars, writerVars, indentVars>>

\* the axis is exhausted: matchIter returns
AxisFinish ==
    /\ ~adone
    /\ NextMatch(query, AxisNodes(AxisOr(axis), qnode), it.pos) = 0
    /\ adone' = TRUE
    /\ UNCHANGED <<nodeName, query, qnode, it, mg, groups, qdone, axis, ayield>>
    /\ UNCHANGED <<treeVars, scanVars, blockVars, ndVars, inlineVars, ruleVars, lineVars, storeVars, copyVars, orderVars, selVars, writerVars, indentVars>>

\* Query(name, axis).matchIter(node) over a document tree rooted at node 1
InitAxis ==
    /\ parent \in {f \in [QNodes -> QNodes \cup {None}] :
                      /\ f[1] = None
                      /\ \A c \in QNodes \ {1} : f[c] # None /\ f[c] < c}
    /\ children = ChildrenOf(parent)
    /\ err = FALSE
    /\ op = "init"
    /\ nodeName \in {f \in [QNodes -> NodeNames \cup {"document"}] :
                        /\ f[1] = "document"
                        /\ \A c \in QNodes \ {1} : f[c] \in NodeNames}
    /\ query \in QueryNames
    /\ qnode \in QNodes
    /\ it = [pos |-> 0, group |-> 0, previous |-> None]
    /\ mg = [group |-> 0, res |-> <<>>]
    /\ groups = <<>>
    /\ qdone = FALSE
    /\ axis \in {"None"} \cup {AxisNames[i] : i \in 1..Len(AxisNames)}
    /\ ayield = <<>>
    /\ adone = FALSE
    /\ IdleOrder
    /\ IdleSelections
    /\ IdleWriters
    /\ IdleIndent
    /\ IdleScan
    /\ IdleBlocks
    /\ IdleNd
    /\ IdleInline
    /\ IdleRules
    /\ IdleLines
    /\ IdleStore
    /\ IdleCopy

NextAxis == AxisNext \/ AxisFinish

SpecAxis == InitAxis /\ [][NextAxis]_vars

\* the nodes of the couples matchIter has yielded
RECURSIVE YieldedNodes(_)
YieldedNodes(ys) == IF ys = <<>> THEN <<>> ELSE <<Head(ys)[2]>> \o YieldedNodes(Tail(ys))

\* C26: a Query whose axis is previous-siblings yields, from the start node,
\* the matching nodes that precede it in its parent's children, the nearest
\* first, and nothing else: never the start node, never a sibling after it.
C26_PreviousSiblingsAxis ==
    (adone /\ axis = "PreviousSiblings")
        => YieldedNodes(ayield)
             = SelectSeq(PreviousSiblingsOf(qnode), LAMBDA n : QueryMatch(query, n))

\* the siblings located strictly after x in its parent's children
SiblingsAfter(x) ==
    IF parent[x] = None THEN <<>>
    ELSE SubSeq(children[parent[x]], IndexOf(children[parent[x]], x) + 1,
                Len(children[parent[x]]))

\* the group number goes up by one exactly between two consecutive yields
\* that are not adjacent siblings
GroupsFollowAdjacency(ys) ==
    \A j \in 1..(Len(ys) - 1) :
        ys[j + 1][1] = ys[j][1] + (IF PreviousSibling(ys[j + 1][2]) = ys[j][2] THEN 0 ELSE 1)

C34_NextSiblingsFromSelf ==
    (adone /\ axis = "NextSiblings")
        => /\ YieldedNodes(ayield)
                = SelectSeq(NextSiblingsOf(qnode), LAMBDA n : QueryMatch(query, n))
           /\ GroupsFollowAdjacency(ayield)

----------------------------------------------------------------------------
(* The block parser over whole runs: research/ndparser.py, parseBlocks *)

\* the line lists of the blocks bs, concatenated in order
RECURSIVE BlockLines(_)
BlockLines(bs) == IF bs = <<>> THEN <<>> ELSE Head(bs).lines \o BlockLines(Tail(bs))

\* what a block can hold for the input line: the line, its remainder after
\* the start Prefix of an entry, or its content before the end Prefix of an
\* entry
EntryOf(entry, line) ==
    \/ entry = line
    \/ \E k \in 1..Len(grammar) :
           /\ Matches(grammar[k].start, line)
           /\ entry = FirstLine(grammar[k], line)
    \/ \E k \in 1..Len(grammar) :
           /\ grammar[k].end # NoPrefix
           /\ Matches(grammar[k].end, line)
           /\ entry = <<>>

\* the blocks that hold the lines consumed so far: those yielded, and before
\* the generator returns the current one
BlocksSoFar == IF done THEN emitted ELSE emitted \o cur

\* C29: the line lists of the blocks, concatenated in the order of their
\* emission, hold one entry per input line consumed, in input order, each
\* the line, its remainder after a start prefix or its content before an end
\* delimiter; once parseBlocks has returned every input line has its entry
\* in a yielded block.
C29_EveryLineOnce ==
    /\ Len(BlockLines(BlocksSoFar)) = pos
    /\ \A i \in 1..pos : EntryOf(BlockLines(BlocksSoFar)[i], input[i])
    /\ done => pos = Len(input)

\* parseBlocks has returned a closed Code block of two entries, the
\* opener's remainder and the content before the closing fence, followed by
\* a text block of one line
C29_Witness ==
    /\ done
    /\ Len(input) = 3
    /\ Len(emitted) = 2
    /\ emitted[1].name = "Code"
    /\ emitted[1].ended
    /\ Len(emitted[1].lines) = 2
    /\ emitted[2].name = ""
    /\ emitted[2].lines = <<input[3]>>

\* the grammar entry of the explicit block that is open after the first i
\* input lines, 0 when none is
RECURSIVE OpenAfter(_)
OpenAfter(i) ==
    IF i = 0 THEN 0
    ELSE IF OpenAfter(i - 1) # 0
         THEN IF Matches(grammar[OpenAfter(i - 1)].end, input[i]) THEN 0
              ELSE OpenAfter(i - 1)
    ELSE IF /\ FirstMatching(grammar, input[i]) # 0
            /\ grammar[FirstMatching(grammar, input[i])].isBlock
            /\ grammar[FirstMatching(grammar, input[i])].end # NoPrefix
         THEN FirstMatching(grammar, input[i])
    ELSE 0

\* line i is handled outside an open explicit block and matches no start Prefix
PlainLine(i) ==
    /\ i \in 1..Len(input)
    /\ OpenAfter(i - 1) = 0
    /\ \A k \in 1..Len(grammar) : ~Matches(grammar[k].start, input[i])

\* the lines a..b are a maximal run of such lines
MaximalRun(a, b) ==
    /\ a <= b
    /\ \A i \in a..b : PlainLine(i)
    /\ ~PlainLine(a - 1)
    /\ ~PlainLine(b + 1)

\* C30: once parseBlocks has returned, every maximal run of consecutive
\* lines that are outside an open explicit block and match no start Prefix
\* is one unnamed text block that holds those lines in order, yielded at the
\* place of the run: after the blocks of the lines before it, and before the
\* block started by the line that ends the run.
C30_TextRunsAreOneBlock ==
    done =>
        \A a \in 1..Len(input), b \in 1..Len(input) :
            MaximalRun(a, b)
            => \E k \in 1..Len(emitted) :
                   /\ emitted[k].name = ""
                   /\ emitted[k].lines = SubSeq(input, a, b)
                   /\ Len(BlockLines(SubSeq(emitted, 1, k - 1))) = a - 1
                   /\ b < Len(input) => k < Len(emitted)

\* under a grammar with Heading, a run of two text lines ended by a heading
\* line was yielded as one text block, before the Heading block
C30_Witness ==
    /\ done
    /\ Len(input) = 3
    /\ MaximalRun(1, 2)
    /\ Len(emitted) = 2
    /\ emitted[1].name = ""
    /\ Len(emitted[1].lines) = 2
    /\ emitted[2].name = "Heading"

====
